---------------------------- MODULE Spec2Model ----------------------------
(***************************************************************************)
(* Tanabbah fraud-message scanner (ManalAlyami7/absher).                   *)
(*                                                                         *)
(* The module models the risk scoring engine of src/script.js              *)
(* (extractURLs, analyzeURLAdvanced, performEnhancedAnalysis,              *)
(* combineMLWithEnhancedAnalysis) at the level of characters, and the      *)
(* page's analyzeMessage handler with its timers and its call to the       *)
(* remote classifier.                                                      *)
(*                                                                         *)
(* A JavaScript string is a sequence of characters; a character is a TLA+  *)
(* string: the character itself when it is ASCII ("a", ".", " "), and      *)
(* "U+XXXX" (its code point) otherwise.                                    *)
(***************************************************************************)
EXTENDS Integers, Sequences, FiniteSets, TLC

-----------------------------------------------------------------------------
(* Characters and the String methods the engine uses                       *)

UpperLetters == <<"A","B","C","D","E","F","G","H","I","J","K","L","M",
                  "N","O","P","Q","R","S","T","U","V","W","X","Y","Z">>
LowerLetters == <<"a","b","c","d","e","f","g","h","i","j","k","l","m",
                  "n","o","p","q","r","s","t","u","v","w","x","y","z">>
Digits == {"0","1","2","3","4","5","6","7","8","9"}
\* [a-zA-Z]
Letters == {UpperLetters[i] : i \in 1..26} \cup {LowerLetters[i] : i \in 1..26}
\* [a-zA-Z0-9-]
LabelChars == Letters \cup Digits \cup {"-"}
\* \s: the whitespace characters that can be written in a message here
Whitespace == {" ", "\t", "\n", "\r", "U+00A0"}
\* the punctuation of [\x00-\x7F], the grave accent left out
AsciiPunctuation ==
    {"!", "\"", "#", "$", "%", "&", "'", "(", ")", "*", "+", ",", ".", "/",
     ":", ";", "<", "=", ">", "?", "@", "[", "\\", "]", "^", "_", "{",
     "|", "}", "~"}
\* [\x00-\x7F], the control characters other than \t \n \r left out
AsciiChars == LabelChars \cup AsciiPunctuation \cup {" ", "\t", "\n", "\r"}
\* [\u0600-\u06FF]
ArabicChars ==
    {"U+0600", "U+0601", "U+0602", "U+0603", "U+0604", "U+0605", "U+0606",
     "U+0607", "U+0608", "U+0609", "U+060A", "U+060B", "U+060C", "U+060D",
     "U+060E", "U+060F", "U+0610", "U+0611", "U+0612", "U+0613", "U+0614",
     "U+0615", "U+0616", "U+0617", "U+0618", "U+0619", "U+061A", "U+061B",
     "U+061C", "U+061D", "U+061E", "U+061F", "U+0620", "U+0621", "U+0622",
     "U+0623", "U+0624", "U+0625", "U+0626", "U+0627", "U+0628", "U+0629",
     "U+062A", "U+062B", "U+062C", "U+062D", "U+062E", "U+062F", "U+0630",
     "U+0631", "U+0632", "U+0633", "U+0634", "U+0635", "U+0636", "U+0637",
     "U+0638", "U+0639", "U+063A", "U+063B", "U+063C", "U+063D", "U+063E",
     "U+063F", "U+0640", "U+0641", "U+0642", "U+0643", "U+0644", "U+0645",
     "U+0646", "U+0647", "U+0648", "U+0649", "U+064A", "U+064B", "U+064C",
     "U+064D", "U+064E", "U+064F", "U+0650", "U+0651", "U+0652", "U+0653",
     "U+0654", "U+0655", "U+0656", "U+0657", "U+0658", "U+0659", "U+065A",
     "U+065B", "U+065C", "U+065D", "U+065E", "U+065F", "U+0660", "U+0661",
     "U+0662", "U+0663", "U+0664", "U+0665", "U+0666", "U+0667", "U+0668",
     "U+0669", "U+066A", "U+066B", "U+066C", "U+066D", "U+066E", "U+066F",
     "U+0670", "U+0671", "U+0672", "U+0673", "U+0674", "U+0675", "U+0676",
     "U+0677", "U+0678", "U+0679", "U+067A", "U+067B", "U+067C", "U+067D",
     "U+067E", "U+067F", "U+0680", "U+0681", "U+0682", "U+0683", "U+0684",
     "U+0685", "U+0686", "U+0687", "U+0688", "U+0689", "U+068A", "U+068B",
     "U+068C", "U+068D", "U+068E", "U+068F", "U+0690", "U+0691", "U+0692",
     "U+0693", "U+0694", "U+0695", "U+0696", "U+0697", "U+0698", "U+0699",
     "U+069A", "U+069B", "U+069C", "U+069D", "U+069E", "U+069F", "U+06A0",
     "U+06A1", "U+06A2", "U+06A3", "U+06A4", "U+06A5", "U+06A6", "U+06A7",
     "U+06A8", "U+06A9", "U+06AA", "U+06AB", "U+06AC", "U+06AD", "U+06AE",
     "U+06AF", "U+06B0", "U+06B1", "U+06B2", "U+06B3", "U+06B4", "U+06B5",
     "U+06B6", "U+06B7", "U+06B8", "U+06B9", "U+06BA", "U+06BB", "U+06BC",
     "U+06BD", "U+06BE", "U+06BF", "U+06C0", "U+06C1", "U+06C2", "U+06C3",
     "U+06C4", "U+06C5", "U+06C6", "U+06C7", "U+06C8", "U+06C9", "U+06CA",
     "U+06CB", "U+06CC", "U+06CD", "U+06CE", "U+06CF", "U+06D0", "U+06D1",
     "U+06D2", "U+06D3", "U+06D4", "U+06D5", "U+06D6", "U+06D7", "U+06D8",
     "U+06D9", "U+06DA", "U+06DB", "U+06DC", "U+06DD", "U+06DE", "U+06DF",
     "U+06E0", "U+06E1", "U+06E2", "U+06E3", "U+06E4", "U+06E5", "U+06E6",
     "U+06E7", "U+06E8", "U+06E9", "U+06EA", "U+06EB", "U+06EC", "U+06ED",
     "U+06EE", "U+06EF", "U+06F0", "U+06F1", "U+06F2", "U+06F3", "U+06F4",
     "U+06F5", "U+06F6", "U+06F7", "U+06F8", "U+06F9", "U+06FA", "U+06FB",
     "U+06FC", "U+06FD", "U+06FE", "U+06FF"}

\* String.prototype.toLowerCase on one character: A-Z, and the three cased
\* characters that occur in the non-ASCII strings of script.js.
LowerChar(c) ==
    IF \E i \in 1..26 : UpperLetters[i] = c
    THEN LowerLetters[CHOOSE i \in 1..26 : UpperLetters[i] = c]
    ELSE CASE c = "U+00D8" -> "U+00F8"
           [] c = "U+00D9" -> "U+00F9"
           [] c = "U+0160" -> "U+0161"
           [] OTHER -> c

toLowerCase(s) == [i \in 1..Len(s) |-> LowerChar(s[i])]

\* s.includes(p), p not empty
Includes(s, p) ==
    \E i \in 1..(Len(s) - Len(p) + 1) :
        s[i] = p[1] /\ SubSeq(s, i, i + Len(p) - 1) = p

StartsWith(s, p) == Len(s) >= Len(p) /\ SubSeq(s, 1, Len(p)) = p

EndsWith(s, p) == Len(s) >= Len(p) /\ SubSeq(s, Len(s) - Len(p) + 1, Len(s)) = p

\* array.includes(x)
InSeq(seq, x) == \E i \in 1..Len(seq) : seq[i] = x

\* array.some(p => s.includes(p))
SomeIncluded(s, patterns) == \E i \in 1..Len(patterns) : Includes(s, patterns[i])

\* the number of entries p of the array with s.includes(p)
CountIncluded(s, patterns) ==
    Cardinality({i \in 1..Len(patterns) : Includes(s, patterns[i])})

\* the number of characters of s that are in the class
CountChars(s, class) == Cardinality({i \in 1..Len(s) : s[i] \in class})

\* the length of the longest run of characters of the class that starts at s[i]
RECURSIVE RunLen(_, _, _)
RunLen(s, i, class) ==
    IF i > Len(s) \/ s[i] \notin class THEN 0 ELSE 1 + RunLen(s, i + 1, class)

\* the length of the longest run of non-whitespace characters that starts at s[i]
RECURSIVE NonSpaceLen(_, _)
NonSpaceLen(s, i) ==
    IF i > Len(s) \/ s[i] \in Whitespace THEN 0 ELSE 1 + NonSpaceLen(s, i + 1)

Max(a, b) == IF a >= b THEN a ELSE b
Min(a, b) == IF a <= b THEN a ELSE b

-----------------------------------------------------------------------------
(* Configuration tables of src/script.js                                   *)

SAFE_THRESHOLD == 25
SUSPICIOUS_THRESHOLD == 65
\* ML confidence levels, in thousandths (0.75, 0.50, 0.30)
ML_HIGH_CONFIDENCE == 750
ML_MEDIUM_CONFIDENCE == 500
ML_LOW_CONFIDENCE == 300

WEIGHTS ==
    [ URL_SHORTENER |-> 30, FAKE_GOVERNMENT |-> 45, INSECURE_PROTOCOL |-> 25,
      URGENCY_TACTICS |-> 22, SUSPICIOUS_DOMAIN |-> 35, PHISHING_KEYWORDS |-> 20,
      MULTIPLE_REDIRECTS |-> 28, UNOFFICIAL_SOURCE |-> 15, SUSPICIOUS_TLD |-> 30,
      IP_ADDRESS_URL |-> 40, EXCESSIVE_SUBDOMAIN |-> 25, UNICODE_HOMOGRAPH |-> 45,
      DATA_HARVESTING |-> 35 ]

\* OFFICIAL_DOMAINS (script.js:45-59): 'absher.sa', 'www.absher.sa', 'moi.gov.sa', ...
OFFICIAL_DOMAINS ==
    <<
      <<"a","b","s","h","e","r",".","s","a">>,
      <<"w","w","w",".","a","b","s","h","e","r",".","s","a">>,
      <<"m","o","i",".","g","o","v",".","s","a">>,
      <<"w","w","w",".","m","o","i",".","g","o","v",".","s","a">>,
      <<"m","y",".","g","o","v",".","s","a">>,
      <<"w","w","w",".","m","y",".","g","o","v",".","s","a">>,
      <<"s","a",".","g","o","v",".","s","a">>,
      <<"w","w","w",".","s","a",".","g","o","v",".","s","a">>,
      <<"n","a","j","i","z",".","s","a">>,
      <<"w","w","w",".","n","a","j","i","z",".","s","a">>,
      <<"e","l","m",".","s","a">>,
      <<"w","w","w",".","e","l","m",".","s","a">>,
      <<"s","p","a",".","g","o","v",".","s","a">>,
      <<"w","w","w",".","s","p","a",".","g","o","v",".","s","a">>,
      <<"m","c",".","g","o","v",".","s","a">>,
      <<"w","w","w",".","m","c",".","g","o","v",".","s","a">>,
      <<"m","o","h",".","g","o","v",".","s","a">>,
      <<"w","w","w",".","m","o","h",".","g","o","v",".","s","a">>,
      <<"m","o","e",".","g","o","v",".","s","a">>,
      <<"w","w","w",".","m","o","e",".","g","o","v",".","s","a">>,
      <<"h","r","s","d",".","g","o","v",".","s","a">>,
      <<"w","w","w",".","h","r","s","d",".","g","o","v",".","s","a">>,
      <<"z","a","t","c","a",".","g","o","v",".","s","a">>,
      <<"w","w","w",".","z","a","t","c","a",".","g","o","v",".","s","a">>,
      <<"g","o","s","i",".","g","o","v",".","s","a">>,
      <<"w","w","w",".","g","o","s","i",".","g","o","v",".","s","a">>
    >>

\* URL_SHORTENERS (script.js:61-68): 'bit.ly', 'tinyurl.com', 't.co', ...
URL_SHORTENERS ==
    <<
      <<"b","i","t",".","l","y">>,
      <<"t","i","n","y","u","r","l",".","c","o","m">>,
      <<"t",".","c","o">>,
      <<"g","o","o",".","g","l">>,
      <<"o","w",".","l","y">>,
      <<"s","h","o","r","t",".","l","i","n","k">>,
      <<"r","e","b","r","a","n","d",".","l","y">>,
      <<"b","u","f","f",".","l","y">>,
      <<"a","d","f",".","l","y">>,
      <<"b","i","t","l","y",".","c","o","m">>,
      <<"i","s",".","g","d">>,
      <<"c","u","t","t",".","l","y">>,
      <<"t","i","n","y",".","c","c">>,
      <<"r","b",".","g","y">>,
      <<"b","l",".","i","n","k">>,
      <<"l","n","k","d",".","i","n">>,
      <<"s","o","o",".","g","d">>,
      <<"c","l","i","c","k","y",".","m","e">>,
      <<"s",".","i","d">>,
      <<"s","h","o","r","t","u","r","l",".","a","t">>,
      <<"t","i","n","y",".","o","n","e">>,
      <<"v",".","g","d">>,
      <<"x",".","c","o">>,
      <<"t","r",".","i","m">>,
      <<"t","i","n","y","u","r","l",".","c","c">>,
      <<"s","n","i","p",".","l","y">>,
      <<"s","h","o","r","t",".","i","o">>
    >>

\* SUSPICIOUS_TLDS (script.js:70-75): '.tk', '.ml', '.ga', ...
SUSPICIOUS_TLDS ==
    <<
      <<".","t","k">>,
      <<".","m","l">>,
      <<".","g","a">>,
      <<".","c","f">>,
      <<".","g","q">>,
      <<".","x","y","z">>,
      <<".","t","o","p">>,
      <<".","c","l","u","b">>,
      <<".","o","n","l","i","n","e">>,
      <<".","w","o","r","k">>,
      <<".","c","l","i","c","k">>,
      <<".","l","i","n","k">>,
      <<".","l","i","v","e">>,
      <<".","i","n","f","o">>,
      <<".","b","i","d">>,
      <<".","w","i","n">>,
      <<".","s","t","r","e","a","m">>
    >>

\* PHISHING_PATTERNS.arabic.urgency (script.js:77-129)
ARABIC_URGENCY ==
    <<
      <<"U+00D8","U+00AA","U+00D9","U+2026"," ","U+00D8","U+00AA","U+00D8","U+00B9","U+00D9","U+201E","U+00D9","U+0160","U+00D9","U+201A">>,
      <<"U+00D8","U+00AA","U+00D9","U+2026"," ","U+00D8","U+00A5","U+00D9","U+0160","U+00D9","U+201A","U+00D8","U+00A7","U+00D9">>,
      <<"U+00D8","U+00AA","U+00D9","U+2026"," ","U+00D8","U+00AD","U+00D8","U+00B8","U+00D8","U+00B1">>,
      <<"U+00D8","U+00B3","U+00D9","U+0160","U+00D8","U+00AA","U+00D9","U+2026"," ","U+00D8","U+00A5","U+00D8","U+00BA","U+00D9","U+201E","U+00D8","U+00A7","U+00D9","U+201A">>,
      <<"U+00D8","U+00AE","U+00D9","U+201E","U+00D8","U+00A7","U+00D9","U+201E"," ","2","4"," ","U+00D8","U+00B3","U+00D8","U+00A7","U+00D8","U+00B9","U+00D8","U+00A9">>,
      <<"U+00D8","U+00AE","U+00D9","U+201E","U+00D8","U+00A7","U+00D9","U+201E"," ","U+00D8","U+00B3","U+00D8","U+00A7","U+00D8","U+00B9","U+00D8","U+00A9">>,
      <<"U+00D9","U+00D9","U+02C6","U+00D8","U+00B1","U+00D8","U+00A7","U+00D9","U+2039">>,
      <<"U+00D8","U+00AD","U+00D8","U+00A7","U+00D9","U+201E","U+00D8","U+00A7","U+00D9","U+2039">>,
      <<"U+00D8","U+00B9","U+00D8","U+00A7","U+00D8","U+00AC","U+00D9","U+201E">>,
      <<"U+00D8","U+00A7","U+00D9","U+201E","U+00D8","U+00A2","U+00D9","U+2020">>,
      <<"U+00D9","U+201A","U+00D8","U+00A8","U+00D9","U+201E"," ","U+00D9","U+00D9","U+02C6","U+00D8","U+00A7","U+00D8","U+00AA"," ","U+00D8","U+00A7","U+00D9","U+201E","U+00D8","U+00A3","U+00D9","U+02C6","U+00D8","U+00A7","U+00D9","U+2020">>,
      <<"U+00D8","U+00A2","U+00D8","U+00AE","U+00D8","U+00B1"," ","U+00D9","U+00D8","U+00B1","U+00D8","U+00B5","U+00D8","U+00A9">>,
      <<"U+00D8","U+00A7","U+00D9","U+2020","U+00D8","U+00AA","U+00D9","U+2021","U+00D8","U+00AA"," ","U+00D8","U+00B5","U+00D9","U+201E","U+00D8","U+00A7","U+00D8","U+00AD","U+00D9","U+0160","U+00D8","U+00A9">>,
      <<"U+00D8","U+00AA","U+00D9","U+2020","U+00D8","U+00AA","U+00D9","U+2021","U+00D9","U+0160"," ","U+00D8","U+00A7","U+00D9","U+201E","U+00D9","U+0160","U+00D9","U+02C6","U+00D9","U+2026">>,
      <<"U+00D9","U+2026","U+00D8","U+00AD","U+00D8","U+00A7","U+00D9","U+02C6","U+00D9","U+201E","U+00D8","U+00A9"," ","U+00D8","U+00A3","U+00D8","U+00AE","U+00D9","U+0160","U+00D8","U+00B1","U+00D8","U+00A9">>
    >>

\* PHISHING_PATTERNS.arabic.action (script.js:77-129)
ARABIC_ACTION ==
    <<
      <<"U+00D8","U+00A7","U+00D8","U+00B6","U+00D8","U+00BA","U+00D8","U+00B7"," ","U+00D9","U+2021","U+00D9","U+2020","U+00D8","U+00A7">>,
      <<"U+00D8","U+00A7","U+00D9","U+2020","U+00D9","U+201A","U+00D8","U+00B1"," ","U+00D9","U+00D9","U+02C6","U+00D8","U+00B1","U+00D8","U+00A7","U+00D9","U+2039">>,
      <<"U+00D9","U+201A","U+00D9","U+2026"," ","U+00D8","U+00A8","U+00D8","U+00A7","U+00D9","U+201E","U+00D8","U+00AA","U+00D8","U+00AD","U+00D8","U+00AF","U+00D9","U+0160","U+00D8","U+00AB">>,
      <<"U+00D8","U+00A3","U+00D8","U+00AF","U+00D8","U+00AE","U+00D9","U+201E"," ","U+00D8","U+00A8","U+00D9","U+0160","U+00D8","U+00A7","U+00D9","U+2020","U+00D8","U+00A7","U+00D8","U+00AA","U+00D9","U+0192">>,
      <<"U+00D8","U+00AA","U+00D8","U+00AD","U+00D9","U+201A","U+00D9","U+201A"," ","U+00D9","U+2026","U+00D9","U+2020"," ","U+00D9","U+2021","U+00D9","U+02C6","U+00D9","U+0160","U+00D8","U+00AA","U+00D9","U+0192">>,
      <<"U+00D8","U+00A3","U+00D9","U+0192","U+00D8","U+00AF"," ","U+00D8","U+00AD","U+00D8","U+00B3","U+00D8","U+00A7","U+00D8","U+00A8","U+00D9","U+0192">>,
      <<"U+00D8","U+00AA","U+00D8","U+00A3","U+00D9","U+0192","U+00D9","U+0160","U+00D8","U+00AF"," ","U+00D8","U+00A7","U+00D9","U+201E","U+00D8","U+00AD","U+00D8","U+00B3","U+00D8","U+00A7","U+00D8","U+00A8">>,
      <<"U+00D9","U+201A","U+00D9","U+2026"," ","U+00D8","U+00A8","U+00D8","U+00A7","U+00D9","U+201E","U+00D8","U+00AA","U+00D9","U+00D8","U+00B9","U+00D9","U+0160","U+00D9","U+201E">>,
      <<"U+00D8","U+00B3","U+00D8","U+00AC","U+00D9","U+201E"," ","U+00D8","U+00A7","U+00D9","U+201E","U+00D8","U+00AF","U+00D8","U+00AE","U+00D9","U+02C6","U+00D9","U+201E">>,
      <<"U+00D8","U+00A3","U+00D8","U+00B9","U+00D8","U+00AF"," ","U+00D8","U+00AA","U+00D8","U+00B3","U+00D8","U+00AC","U+00D9","U+0160","U+00D9","U+201E">>,
      <<"U+00D8","U+00AA","U+00D8","U+00AD","U+00D8","U+00AF","U+00D9","U+0160","U+00D8","U+00AB"," ","U+00D9","U+2026","U+00D8","U+00B9","U+00D9","U+201E","U+00D9","U+02C6","U+00D9","U+2026","U+00D8","U+00A7","U+00D8","U+00AA","U+00D9","U+0192">>
    >>

\* PHISHING_PATTERNS.arabic.threat (script.js:77-129)
ARABIC_THREAT ==
    <<
      <<"U+00D8","U+00B3","U+00D9","U+0160","U+00D8","U+00AA","U+00D9","U+2026"," ","U+00D8","U+00AD","U+00D8","U+00B0","U+00D9">>,
      <<"U+00D9","U+00D9","U+201A","U+00D8","U+00AF","U+00D8","U+00A7","U+00D9","U+2020"," ","U+00D8","U+00A7","U+00D9","U+201E","U+00D9","U+02C6","U+00D8","U+00B5","U+00D9","U+02C6","U+00D9","U+201E">>,
      <<"U+00D8","U+00A5","U+00D9","U+201E","U+00D8","U+00BA","U+00D8","U+00A7","U+00D8","U+00A1"," ","U+00D8","U+00A7","U+00D9","U+201E","U+00D8","U+00AE","U+00D8","U+00AF","U+00D9","U+2026","U+00D8","U+00A9">>,
      <<"U+00D8","U+00B1","U+00D8","U+00B3","U+00D9","U+02C6","U+00D9","U+2026"," ","U+00D8","U+00A5","U+00D8","U+00B6","U+00D8","U+00A7","U+00D9","U+00D9","U+0160","U+00D8","U+00A9">>,
      <<"U+00D8","U+00B9","U+00D9","U+201A","U+00D9","U+02C6","U+00D8","U+00A8","U+00D8","U+00A9"," ","U+00D9","U+201A","U+00D8","U+00A7","U+00D9","U+2020","U+00D9","U+02C6","U+00D9","U+2020","U+00D9","U+0160","U+00D8","U+00A9">>,
      <<"U+00D8","U+00A5","U+00D8","U+00AC","U+00D8","U+00B1","U+00D8","U+00A7","U+00D8","U+00A1"," ","U+00D9","U+201A","U+00D8","U+00A7","U+00D9","U+2020","U+00D9","U+02C6","U+00D9","U+2020","U+00D9","U+0160">>,
      <<"U+00D8","U+00AA","U+00D9","U+2026"," ","U+00D8","U+00B1","U+00D8","U+00B5","U+00D8","U+00AF"," ","U+00D9","U+2020","U+00D8","U+00B4","U+00D8","U+00A7","U+00D8","U+00B7"," ","U+00D9","U+2026","U+00D8","U+00B4","U+00D8","U+00A8","U+00D9","U+02C6","U+00D9","U+2021">>,
      <<"U+00D9","U+2026","U+00D8","U+00AD","U+00D8","U+00A7","U+00D9","U+02C6","U+00D9","U+201E","U+00D8","U+00A9"," ","U+00D8","U+00A7","U+00D8","U+00AE","U+00D8","U+00AA","U+00D8","U+00B1","U+00D8","U+00A7","U+00D9","U+201A">>,
      <<"U+00D8","U+00A7","U+00D9","U+201E","U+00D8","U+00AD","U+00D8","U+00B3","U+00D8","U+00A7","U+00D8","U+00A8"," ","U+00D9","U+2026","U+00D8","U+00B9","U+00D8","U+00B1","U+00D8","U+00B6"," ","U+00D9","U+201E","U+00D9","U+201E","U+00D8","U+00AE","U+00D8","U+00B7","U+00D8","U+00B1">>
    >>

\* PHISHING_PATTERNS.arabic.reward (script.js:77-129)
ARABIC_REWARD ==
    <<
      <<"U+00D8","U+00B1","U+00D8","U+00A8","U+00D8","U+00AD","U+00D8","U+00AA">>,
      <<"U+00D9","U+00D8","U+00B2","U+00D8","U+00AA">>,
      <<"U+00D9","U+2026","U+00D9","U+0192","U+00D8","U+00A7","U+00D9","U+00D8","U+00A3","U+00D8","U+00A9">>,
      <<"U+00D8","U+00AC","U+00D8","U+00A7","U+00D8","U+00A6","U+00D8","U+00B2","U+00D8","U+00A9">>,
      <<"U+00D8","U+00B9","U+00D8","U+00B1","U+00D8","U+00B6"," ","U+00D8","U+00AD","U+00D8","U+00B5","U+00D8","U+00B1","U+00D9","U+0160">>,
      <<"U+00D8","U+00AE","U+00D8","U+00B5","U+00D9","U+2026"," ","U+00D8","U+00AE","U+00D8","U+00A7","U+00D8","U+00B5">>,
      <<"U+00D9","U+2021","U+00D8","U+00AF","U+00D9","U+0160","U+00D8","U+00A9"," ","U+00D9","U+2026","U+00D8","U+00AC","U+00D8","U+00A7","U+00D9","U+2020","U+00D9","U+0160","U+00D8","U+00A9">>,
      <<"U+00D8","U+00A7","U+00D8","U+00B3","U+00D8","U+00AA","U+00D8","U+00B1","U+00D8","U+00AF","U+00D8","U+00A7","U+00D8","U+00AF"," ","U+00D9","U+2020","U+00D9","U+201A","U+00D8","U+00AF","U+00D9","U+0160">>
    >>

\* PHISHING_PATTERNS.arabic.verification (script.js:77-129)
ARABIC_VERIFICATION ==
    <<
      <<"U+00D8","U+00AA","U+00D8","U+00AD","U+00D9","U+201A","U+00D9","U+201A"," ","U+00D9","U+2026","U+00D9","U+2020">>,
      <<"U+00D8","U+00AA","U+00D8","U+00A3","U+00D9","U+0192","U+00D9","U+0160","U+00D8","U+00AF">>,
      <<"U+00D9","U+2026","U+00D8","U+00B1","U+00D8","U+00A7","U+00D8","U+00AC","U+00D8","U+00B9","U+00D8","U+00A9">>,
      <<"U+00D8","U+00AA","U+00D8","U+00AD","U+00D8","U+00AF","U+00D9","U+0160","U+00D8","U+00AB"," ","U+00D8","U+00A8","U+00D9","U+0160","U+00D8","U+00A7","U+00D9","U+2020","U+00D8","U+00A7","U+00D8","U+00AA","U+00D9","U+0192">>,
      <<"U+00D8","U+00A7","U+00D8","U+00B3","U+00D8","U+00AA","U+00D9","U+0192","U+00D9","U+2026","U+00D8","U+00A7","U+00D9","U+201E"," ","U+00D8","U+00A7","U+00D9","U+201E","U+00D8","U+00AA","U+00D8","U+00B3","U+00D8","U+00AC","U+00D9","U+0160","U+00D9","U+201E">>,
      <<"U+00D8","U+00A5","U+00D8","U+00B9","U+00D8","U+00A7","U+00D8","U+00AF","U+00D8","U+00A9"," ","U+00D8","U+00A7","U+00D9","U+201E","U+00D8","U+00AA","U+00D9","U+00D8","U+00B9","U+00D9","U+0160","U+00D9","U+201E">>
    >>

\* PHISHING_PATTERNS.english.urgency (script.js:77-129)
ENGLISH_URGENCY ==
    <<
      <<"s","u","s","p","e","n","d","e","d">>,
      <<"b","l","o","c","k","e","d">>,
      <<"l","o","c","k","e","d">>,
      <<"w","i","l","l"," ","b","e"," ","c","l","o","s","e","d">>,
      <<"w","i","t","h","i","n"," ","2","4"," ","h","o","u","r","s">>,
      <<"e","x","p","i","r","e","s"," ","t","o","d","a","y">>,
      <<"u","r","g","e","n","t">>,
      <<"i","m","m","e","d","i","a","t","e","l","y">>,
      <<"a","c","t"," ","n","o","w">>,
      <<"l","a","s","t"," ","c","h","a","n","c","e">>,
      <<"f","i","n","a","l"," ","n","o","t","i","c","e">>,
      <<"e","x","p","i","r","e","s"," ","s","o","o","n">>
    >>

\* PHISHING_PATTERNS.english.action (script.js:77-129)
ENGLISH_ACTION ==
    <<
      <<"c","l","i","c","k"," ","h","e","r","e">>,
      <<"c","l","i","c","k"," ","n","o","w">>,
      <<"u","p","d","a","t","e"," ","n","o","w">>,
      <<"v","e","r","i","f","y"," ","a","c","c","o","u","n","t">>,
      <<"c","o","n","f","i","r","m"," ","i","d","e","n","t","i","t","y">>,
      <<"e","n","t","e","r"," ","d","e","t","a","i","l","s">>,
      <<"l","o","g","i","n"," ","n","o","w">>,
      <<"r","e","-","r","e","g","i","s","t","e","r">>,
      <<"u","p","d","a","t","e"," ","i","n","f","o","r","m","a","t","i","o","n">>,
      <<"a","c","t","i","v","a","t","e"," ","a","c","c","o","u","n","t">>
    >>

\* PHISHING_PATTERNS.english.threat (script.js:77-129)
ENGLISH_THREAT ==
    <<
      <<"w","i","l","l"," ","b","e"," ","d","e","l","e","t","e","d">>,
      <<"l","o","s","e"," ","a","c","c","e","s","s">>,
      <<"s","e","r","v","i","c","e"," ","c","a","n","c","e","l","l","a","t","i","o","n">>,
      <<"a","d","d","i","t","i","o","n","a","l"," ","f","e","e","s">>,
      <<"l","e","g","a","l"," ","a","c","t","i","o","n">>,
      <<"s","u","s","p","i","c","i","o","u","s"," ","a","c","t","i","v","i","t","y"," ","d","e","t","e","c","t","e","d">>,
      <<"a","c","c","o","u","n","t"," ","c","o","m","p","r","o","m","i","s","e","d">>,
      <<"s","e","c","u","r","i","t","y"," ","b","r","e","a","c","h">>
    >>

\* PHISHING_PATTERNS.english.reward (script.js:77-129)
ENGLISH_REWARD ==
    <<
      <<"y","o","u"," ","w","o","n">>,
      <<"c","o","n","g","r","a","t","u","l","a","t","i","o","n","s">>,
      <<"p","r","i","z","e">>,
      <<"r","e","w","a","r","d">>,
      <<"e","x","c","l","u","s","i","v","e"," ","o","f","f","e","r">>,
      <<"s","p","e","c","i","a","l"," ","d","i","s","c","o","u","n","t">>,
      <<"f","r","e","e"," ","g","i","f","t">>,
      <<"c","a","s","h"," ","b","a","c","k">>,
      <<"c","l","a","i","m"," ","n","o","w">>
    >>

\* PHISHING_PATTERNS.english.verification (script.js:77-129)
ENGLISH_VERIFICATION ==
    <<
      <<"v","e","r","i","f","y">>,
      <<"c","o","n","f","i","r","m">>,
      <<"r","e","v","i","e","w">>,
      <<"u","p","d","a","t","e"," ","y","o","u","r"," ","d","e","t","a","i","l","s">>,
      <<"c","o","m","p","l","e","t","e"," ","r","e","g","i","s","t","r","a","t","i","o","n">>,
      <<"r","e","a","c","t","i","v","a","t","e">>
    >>

\* GOVERNMENT_SERVICES (script.js:131-136); the Arabic entries are stored in the file as the characters shown (each Arabic letter is two Latin-1/cp1252 characters)
GOVERNMENT_SERVICES ==
    <<
      <<"U+00D8","U+00A3","U+00D8","U+00A8","U+00D8","U+00B4","U+00D8","U+00B1">>,
      <<"a","b","s","h","e","r">>,
      <<"U+00D9","U+2020","U+00D8","U+00A7","U+00D8","U+00AC","U+00D8","U+00B2">>,
      <<"n","a","j","i","z">>,
      <<"U+00D9","U+02C6","U+00D8","U+00B2","U+00D8","U+00A7","U+00D8","U+00B1","U+00D8","U+00A9">>,
      <<"m","i","n","i","s","t","r","y">>,
      <<"U+00D9","U+2021","U+00D9","U+0160","U+00D8","U+00A6","U+00D8","U+00A9">>,
      <<"a","u","t","h","o","r","i","t","y">>,
      <<"U+00D9","U+2026","U+00D8","U+00A4","U+00D8","U+00B3","U+00D8","U+00B3","U+00D8","U+00A9">>,
      <<"i","n","s","t","i","t","u","t","i","o","n">>,
      <<"U+00D8","U+00AD","U+00D9","U+0192","U+00D9","U+02C6","U+00D9","U+2026","U+00D8","U+00A9">>,
      <<"g","o","v","e","r","n","m","e","n","t">>,
      <<"U+00D8","U+00A7","U+00D9","U+201E","U+00D8","U+00B6","U+00D9","U+2026","U+00D8","U+00A7","U+00D9","U+2020">>,
      <<"g","o","s","i">>,
      <<"U+00D8","U+00A7","U+00D9","U+201E","U+00D8","U+00B2","U+00D9","U+0192","U+00D8","U+00A7","U+00D8","U+00A9">>,
      <<"z","a","t","c","a">>,
      <<"U+00D8","U+00A7","U+00D9","U+201E","U+00D8","U+00AC","U+00D9","U+02C6","U+00D8","U+00A7","U+00D8","U+00B2","U+00D8","U+00A7","U+00D8","U+00AA">>,
      <<"p","a","s","s","p","o","r","t">>,
      <<"U+00D8","U+00A7","U+00D9","U+201E","U+00D9","U+2026","U+00D8","U+00B1","U+00D9","U+02C6","U+00D8","U+00B1">>,
      <<"t","r","a","f","f","i","c">>,
      <<"U+00D8","U+00A7","U+00D9","U+201E","U+00D8","U+00A3","U+00D8","U+00AD","U+00D9","U+02C6","U+00D8","U+00A7","U+00D9","U+201E">>,
      <<"c","i","v","i","l"," ","a","f","f","a","i","r","s">>
    >>

\* suspiciousPorts (script.js:369)
suspiciousPorts ==
    <<
      <<":","8","0","8","0">>,
      <<":","8","8","8","8">>,
      <<":","3","0","0","0">>,
      <<":","5","0","0","0">>,
      <<":","8","4","4","3">>
    >>

\* harvestingPatterns (script.js:402-405)
harvestingPatterns ==
    <<
      <<"l","o","g","i","n">>,
      <<"s","i","g","n","i","n">>,
      <<"a","c","c","o","u","n","t">>,
      <<"v","e","r","i","f","y">>,
      <<"c","o","n","f","i","r","m">>,
      <<"s","e","c","u","r","e">>,
      <<"u","p","d","a","t","e">>,
      <<"s","u","s","p","e","n","d","e","d">>,
      <<"b","i","l","l","i","n","g">>
    >>

\* personalInfoKeywords (script.js:599-604)
personalInfoKeywords ==
    <<
      <<"U+00D8","U+00B1","U+00D9","U+201A","U+00D9","U+2026"," ","U+00D8","U+00A7","U+00D9","U+201E","U+00D9","U+2021","U+00D9","U+02C6","U+00D9","U+0160","U+00D8","U+00A9">>,
      <<"U+00D9","U+0192","U+00D9","U+201E","U+00D9","U+2026","U+00D8","U+00A9"," ","U+00D8","U+00A7","U+00D9","U+201E","U+00D9","U+2026","U+00D8","U+00B1","U+00D9","U+02C6","U+00D8","U+00B1">>,
      <<"U+00D8","U+00B1","U+00D9","U+201A","U+00D9","U+2026"," ","U+00D8","U+00A7","U+00D9","U+201E","U+00D8","U+00B3","U+00D8","U+00B1","U+00D9","U+0160">>,
      <<"U+00D8","U+00A7","U+00D9","U+201E","U+00D8","U+00B1","U+00D9","U+201A","U+00D9","U+2026"," ","U+00D8","U+00A7","U+00D9","U+201E","U+00D8","U+00B3","U+00D8","U+00B1","U+00D9","U+0160">>,
      <<"U+00D8","U+00A7","U+00D9","U+201E","U+00D8","U+00A8","U+00D8","U+00B7","U+00D8","U+00A7","U+00D9","U+201A","U+00D8","U+00A9">>,
      <<"U+00D8","U+00B1","U+00D9","U+201A","U+00D9","U+2026"," ","U+00D8","U+00A7","U+00D9","U+201E","U+00D8","U+00AD","U+00D8","U+00B3","U+00D8","U+00A7","U+00D8","U+00A8">>,
      <<"U+00D9","U+0192","U+00D9","U+02C6","U+00D8","U+00AF"," ","U+00D8","U+00A7","U+00D9","U+201E","U+00D8","U+00AA","U+00D8","U+00AD","U+00D9","U+201A","U+00D9","U+201A">>,
      <<"n","a","t","i","o","n","a","l"," ","i","d">>,
      <<"p","a","s","s","w","o","r","d">>,
      <<"p","i","n">>,
      <<"c","a","r","d"," ","n","u","m","b","e","r">>,
      <<"a","c","c","o","u","n","t"," ","n","u","m","b","e","r">>,
      <<"v","e","r","i","f","i","c","a","t","i","o","n"," ","c","o","d","e">>,
      <<"o","t","p">>
    >>

\* misspelledTerms[i].wrong (script.js:634-638)
misspelledWrong ==
    <<
      <<"U+00D8","U+00A7","U+00D8","U+00A8","U+00D8","U+00B4","U+00D8","U+00B1">>,
      <<"U+00D9","U+2020","U+00D8","U+00A7","U+00D8","U+00AC","U+00D9","U+0160","U+00D8","U+00B2">>,
      <<"U+00D9","U+02C6","U+00D8","U+00B2","U+00D8","U+00A7","U+00D8","U+00B1","U+00D9","U+2021">>
    >>

-----------------------------------------------------------------------------
(* extractURLs (script.js:746-763)                                         *)

\* /https?:\/\//i matched at text[i]: the length of the match, 0 when none
SchemeLen(text, i) ==
    IF i + 6 <= Len(text) /\ toLowerCase(SubSeq(text, i, i + 3)) = <<"h","t","t","p">>
    THEN IF SubSeq(text, i + 4, i + 6) = <<":","/","/">> THEN 7
         ELSE IF i + 7 <= Len(text) /\ LowerChar(text[i + 4]) = "s"
                 /\ SubSeq(text, i + 5, i + 7) = <<":","/","/">> THEN 8
         ELSE 0
    ELSE 0

\* text.match(/https?:\/\/[^\s]+/gi) from text[i] on: the matches, left to right
RECURSIVE FullUrlMatches(_, _)
FullUrlMatches(text, i) ==
    IF i > Len(text) THEN <<>>
    ELSE LET n == SchemeLen(text, i)
             r == NonSpaceLen(text, i + n)
         IN  IF n > 0 /\ r > 0
             THEN <<SubSeq(text, i, i + n + r - 1)>> \o FullUrlMatches(text, i + n + r)
             ELSE FullUrlMatches(text, i + 1)

\* The group ([a-zA-Z0-9-]+\.[a-zA-Z]{2,}(?:\/[^\s]*)?) matched at text[p]: the
\* index of the last character of the match, 0 when there is no match.  Each
\* quantifier is greedy and what follows it cannot match inside its class, so
\* the label and the letters are maximal runs.
BareEnd(text, p) ==
    LET k == RunLen(text, p, LabelChars)
        m == RunLen(text, p + k + 1, Letters)
        e == p + k + m
    IN  IF k = 0 \/ p + k > Len(text) \/ text[p + k] # "." \/ m < 2 THEN 0
        ELSE IF e + 1 <= Len(text) /\ text[e + 1] = "/"
             THEN e + 1 + NonSpaceLen(text, e + 2)
             ELSE e

\* The exec loop of bareUrlPattern with lastIndex at text[j]: match[1] of every
\* match, left to right.  (?:^|\s) is the start of the text or one whitespace
\* character, which the match consumes.
RECURSIVE BareUrlMatches(_, _)
BareUrlMatches(text, j) ==
    IF j > Len(text) THEN <<>>
    ELSE LET atStart == IF j = 1 THEN BareEnd(text, 1) ELSE 0
             afterSpace == IF text[j] \in Whitespace THEN BareEnd(text, j + 1) ELSE 0
             s == IF atStart > 0 THEN 1 ELSE j + 1
             e == IF atStart > 0 THEN atStart ELSE afterSpace
         IN  IF e > 0
             THEN <<SubSeq(text, s, e)>> \o BareUrlMatches(text, e + 1)
             ELSE BareUrlMatches(text, j + 1)

\* the body of the while loop: push the bare match unless it is already there,
\* ends with a dot or has no dot
RECURSIVE PushBareUrls(_, _)
PushBareUrls(urls, matches) ==
    IF matches = <<>> THEN urls
    ELSE LET url == Head(matches)
         IN  PushBareUrls(
                 IF ~InSeq(urls, url) /\ ~EndsWith(url, <<".">>) /\ Includes(url, <<".">>)
                 THEN Append(urls, url) ELSE urls,
                 Tail(matches))

extractURLs(text) ==
    PushBareUrls(FullUrlMatches(text, 1), BareUrlMatches(text, 1))

-----------------------------------------------------------------------------
(* Flags.  A warning is a string rendered in the language that is current  *)
(* when the engine runs; it is modelled by the message it renders (id), the *)
(* language it is rendered in, and the values interpolated into it.        *)

Warning(id, lang) == [id |-> id, lang |-> lang, n |-> 0, url |-> <<>>]
WarningN(id, lang, n) == [id |-> id, lang |-> lang, n |-> n, url |-> <<>>]
WarningUrl(id, lang, url, pct) == [id |-> id, lang |-> lang, n |-> pct, url |-> url]

\* t(key) (script.js:329-331): translations[currentLanguage][key]
t(key, lang) == <<lang, key>>

-----------------------------------------------------------------------------
(* analyzeURLAdvanced (script.js:349-448)                                  *)

\* /^https?:\/\/\d{1,3}\./ from url[i]: the index after the dot, 0 when none
DigitsDot(url, i) ==
    LET d == RunLen(url, i, Digits)
    IN  IF d >= 1 /\ d <= 3 /\ i + d <= Len(url) /\ url[i + d] = "." THEN i + d + 1 ELSE 0

\* ipPattern.test(url); the pattern is case-sensitive
IpPatternTest(url) ==
    LET start == IF StartsWith(url, <<"h","t","t","p",":","/","/">>) THEN 8
                 ELSE IF StartsWith(url, <<"h","t","t","p","s",":","/","/">>) THEN 9
                 ELSE 0
        a == IF start = 0 THEN 0 ELSE DigitsDot(url, start)
        b == IF a = 0 THEN 0 ELSE DigitsDot(url, a)
        c == IF b = 0 THEN 0 ELSE DigitsDot(url, b)
    IN  c > 0 /\ c <= Len(url) /\ url[c] \in Digits

\* s.split('/'): the pieces of s between slashes
RECURSIVE SplitSlash(_, _, _)
SplitSlash(s, i, piece) ==
    IF i > Len(s) THEN <<piece>>
    ELSE IF s[i] = "/" THEN <<piece>> \o SplitSlash(s, i + 1, <<>>)
    ELSE SplitSlash(s, i + 1, Append(piece, s[i]))

\* urlLower.split('/')[2]?.split('.') || [] : the number of its elements
DomainPartsLength(urlLower) ==
    LET pieces == SplitSlash(urlLower, 1, <<>>)
    IN  IF Len(pieces) < 3 THEN 0 ELSE CountChars(pieces[3], {"."}) + 1

\* /[^\x00-\x7F]/.test(url) && !/[؀-ۿ]/.test(url)
HasUnicode(url) ==
    /\ \E i \in 1..Len(url) : url[i] \notin AsciiChars
    /\ ~ \E i \in 1..Len(url) : url[i] \in ArabicChars

analyzeURLAdvanced(url, lang) ==
    LET urlLower == toLowerCase(url)
        ip == IpPatternTest(url)
        port == SomeIncluded(urlLower, suspiciousPorts)
        sub == DomainPartsLength(urlLower) > 4
        uni == HasUnicode(url)
        harvest == CountIncluded(urlLower, harvestingPatterns) >= 2
        long == Len(url) > 100
        at == Includes(url, <<"@">>)
        hyphens == CountChars(url, {"-"}) > 3
    IN  [ riskScore |->
              (IF ip THEN WEIGHTS.IP_ADDRESS_URL ELSE 0)
            + (IF port THEN 18 ELSE 0)
            + (IF sub THEN WEIGHTS.EXCESSIVE_SUBDOMAIN ELSE 0)
            + (IF uni THEN WEIGHTS.UNICODE_HOMOGRAPH ELSE 0)
            + (IF harvest THEN WEIGHTS.DATA_HARVESTING ELSE 0)
            + (IF long THEN 15 ELSE 0)
            + (IF at THEN 30 ELSE 0)
            + (IF hyphens THEN 20 ELSE 0),
          flags |->
              (IF ip THEN <<Warning("IP_ADDRESS_URL", lang)>> ELSE <<>>)
           \o (IF port THEN <<Warning("SUSPICIOUS_PORT", lang)>> ELSE <<>>)
           \o (IF sub THEN <<Warning("EXCESSIVE_SUBDOMAIN", lang)>> ELSE <<>>)
           \o (IF uni THEN <<Warning("UNICODE_HOMOGRAPH", lang)>> ELSE <<>>)
           \o (IF harvest THEN <<Warning("DATA_HARVESTING", lang)>> ELSE <<>>)
           \o (IF long THEN <<Warning("LONG_URL", lang)>> ELSE <<>>)
           \o (IF at THEN <<Warning("AT_SYMBOL", lang)>> ELSE <<>>)
           \o (IF hyphens THEN <<Warning("EXCESSIVE_HYPHENS", lang)>> ELSE <<>>) ]

-----------------------------------------------------------------------------
(* performEnhancedAnalysis (script.js:454-684)                             *)

\* OFFICIAL_DOMAINS.some(official => url.toLowerCase().includes(official))
IsOfficialURL(url) == SomeIncluded(toLowerCase(url), OFFICIAL_DOMAINS)

\* One pass of the urls.forEach callback (script.js:467-509) for a URL that is
\* not official: the score it adds and the warnings it pushes.
UrlChecks(url, lang) ==
    LET urlLower == toLowerCase(url)
        adv == analyzeURLAdvanced(url, lang)
        shortener == SomeIncluded(urlLower, URL_SHORTENERS)
        insecure == StartsWith(urlLower, <<"h","t","t","p",":","/","/">>)
                    /\ ~Includes(urlLower, <<".","g","o","v",".","s","a">>)
        tld == \E i \in 1..Len(SUSPICIOUS_TLDS) : EndsWith(urlLower, SUSPICIOUS_TLDS[i])
    IN  [ riskScore |->
              adv.riskScore
            + (IF shortener THEN WEIGHTS.URL_SHORTENER ELSE 0)
            + (IF insecure THEN WEIGHTS.INSECURE_PROTOCOL ELSE 0)
            + (IF tld THEN WEIGHTS.SUSPICIOUS_TLD ELSE 0),
          flags |->
              adv.flags
           \o (IF shortener THEN <<Warning("URL_SHORTENER", lang)>> ELSE <<>>)
           \o (IF insecure THEN <<Warning("INSECURE_PROTOCOL", lang)>> ELSE <<>>)
           \o (IF tld THEN <<Warning("SUSPICIOUS_TLD", lang)>> ELSE <<>>) ]

\* the loop over the URLs ended at the first official URL
RECURSIVE ForEachUrlStopsAtOfficial(_, _, _, _)
ForEachUrlStopsAtOfficial(urls, i, lang, acc) ==
    IF i > Len(urls) THEN acc
    ELSE IF IsOfficialURL(urls[i])
         THEN [acc EXCEPT !.hasOfficialDomain = TRUE]
         ELSE LET c == UrlChecks(urls[i], lang)
              IN  ForEachUrlStopsAtOfficial(urls, i + 1, lang,
                      [acc EXCEPT !.riskScore = @ + c.riskScore,
                                  !.warnings = @ \o c.flags])

\* urls.forEach (script.js:466-510) from urls[i] on, with the running score,
\* warnings and hasOfficialDomain
RECURSIVE ForEachUrl(_, _, _, _)
ForEachUrl(urls, i, lang, acc) ==
    IF i > Len(urls) THEN acc
    ELSE IF IsOfficialURL(urls[i])
         THEN ForEachUrl(urls, i + 1, lang, [acc EXCEPT !.hasOfficialDomain = TRUE])
         ELSE LET c == UrlChecks(urls[i], lang)
              IN  ForEachUrl(urls, i + 1, lang,
                      [acc EXCEPT !.riskScore = @ + c.riskScore,
                                  !.warnings = @ \o c.flags])

\* the score left as the sum made it, without Math.max and Math.min
ClampLeftOut(riskScore) == riskScore

\* Math.max(0, Math.min(100, riskScore))
Clamp(riskScore) == Max(0, Min(100, riskScore))

\* the if / else if / else on the thresholds (script.js:657-669, 729-741)
Classify(riskScore) ==
    IF riskScore <= SAFE_THRESHOLD THEN "SAFE"
    ELSE IF riskScore <= SUSPICIOUS_THRESHOLD THEN "SUSPICIOUS"
    ELSE "FRAUD"

Icon(classification) ==
    CASE classification = "SAFE" -> "check"
      [] classification = "SUSPICIOUS" -> "warning"
      [] OTHER -> "cross"

ClassificationKey(classification) ==
    CASE classification = "SAFE" -> "safe"
      [] classification = "SUSPICIOUS" -> "suspicious"
      [] OTHER -> "fraud"

\* the mixed language check (script.js:616-631).  The ratios are compared as
\* exact fractions of text.length: the floating point comparison can differ
\* from that only when 5 * diff = text.length, and on the modelled texts where
\* that holds both give FALSE.
MixedLanguage(text) ==
    LET arabic == CountChars(text, ArabicChars)
        english == CountChars(text, Letters)
        diff == IF arabic >= english THEN arabic - english ELSE english - arabic
    IN  arabic > 0 /\ english > 0 /\ 5 * diff < Len(text) /\ 5 * arabic > Len(text)

ARABIC_PATTERNS ==
    <<ARABIC_URGENCY, ARABIC_ACTION, ARABIC_THREAT, ARABIC_REWARD, ARABIC_VERIFICATION>>
ENGLISH_PATTERNS ==
    <<ENGLISH_URGENCY, ENGLISH_ACTION, ENGLISH_THREAT, ENGLISH_REWARD, ENGLISH_VERIFICATION>>

\* the sum of f[1..n]
RECURSIVE SumTo(_, _)
SumTo(f, n) == IF n = 0 THEN 0 ELSE f[n] + SumTo(f, n - 1)

\* phishingIndicators (script.js:556-566): the patterns are not lowercased
PhishingIndicators(textLower) ==
      SumTo([c \in 1..5 |-> CountIncluded(textLower, ARABIC_PATTERNS[c])], 5)
    + SumTo([c \in 1..5 |-> CountIncluded(textLower, ENGLISH_PATTERNS[c])], 5)

\* misspelledTerms.forEach (script.js:640-649): the terms found in the text
MisspelledFound(text) ==
    SelectSeq(misspelledWrong, LAMBDA w : Includes(text, w))

\* the government impersonation check (script.js:522-534)
MentionsGovernment(textLower) ==
    \E i \in 1..Len(GOVERNMENT_SERVICES) :
        Includes(textLower, toLowerCase(GOVERNMENT_SERVICES[i]))

\* the impersonation check without its hasOfficialDomain condition
FakeGovernmentWithoutOfficialCheck(textLower, hasUrls, hasOfficialDomain) ==
    MentionsGovernment(textLower) /\ hasUrls

FakeGovernment(textLower, hasUrls, hasOfficialDomain) ==
    MentionsGovernment(textLower) /\ hasUrls /\ ~hasOfficialDomain

\* urgencyMatches counted over the Arabic patterns only
UrgencyMatchesArabicOnly(textLower) == CountIncluded(textLower, ARABIC_URGENCY)

\* urgencyMatches (script.js:536-541)
UrgencyMatches(textLower) ==
    CountIncluded(textLower, ARABIC_URGENCY) + CountIncluded(textLower, ENGLISH_URGENCY)

\* the unofficial source check without its hasUrls condition
UnofficialSourceWithoutUrls(hasUrls, hasOfficialDomain) == ~hasOfficialDomain

\* the unofficial source check (script.js:588-596)
UnofficialSource(hasUrls, hasOfficialDomain) == hasUrls /\ ~hasOfficialDomain

\* the personal information check (script.js:598-613)
PersonalInfo(textLower) ==
    \E i \in 1..Len(personalInfoKeywords) :
        Includes(textLower, toLowerCase(personalInfoKeywords[i]))

\* the multiple URL check firing for more than five URLs only
MultipleRedirectsAboveFive(urlsFound) == urlsFound > 5

\* the multiple URL check (script.js:578-586): urls.length > 2
MultipleRedirects(urlsFound) == urlsFound > 2

\* the official domain bonus (script.js:513-520)
OfficialBonus(hasOfficialDomain) == IF hasOfficialDomain THEN -30 ELSE 0

\* the result object (script.js:652-683): the score clamped by the caller, the
\* classification, and at most ten of the warnings
EnhancedResult(riskScore, warnings, urlsFound, lang) ==
    [ classification |-> Classify(riskScore),
      classification_ar |-> t(ClassificationKey(Classify(riskScore)), lang),
      riskScore |-> riskScore,
      icon |-> Icon(Classify(riskScore)),
      explanation |-> <<lang, Len(warnings)>>,
      warnings |-> SubSeq(warnings, 1, Min(10, Len(warnings))),
      urlsFound |-> urlsFound ]

\* the penalties and the warnings of the checks, in the order of the code
\* (script.js:513-652); u is what the loop over the URLs left
EnhancedScore(lang, urlsFound, u, fakeGov, urgencyMatches, phishingIndicators, unofficial, personal, mixed, misspelled) ==
    EnhancedResult(
        Clamp(  u.riskScore
              + OfficialBonus(u.hasOfficialDomain)
              + (IF fakeGov THEN WEIGHTS.FAKE_GOVERNMENT ELSE 0)
              + (IF urgencyMatches > 0
                 THEN Min(urgencyMatches * 12, WEIGHTS.URGENCY_TACTICS) ELSE 0)
              + (IF phishingIndicators >= 3
                 THEN Min(phishingIndicators * 8, WEIGHTS.PHISHING_KEYWORDS) ELSE 0)
              + (IF MultipleRedirects(urlsFound) THEN WEIGHTS.MULTIPLE_REDIRECTS ELSE 0)
              + (IF unofficial THEN WEIGHTS.UNOFFICIAL_SOURCE ELSE 0)
              + (IF personal THEN 25 ELSE 0)
              + (IF mixed THEN 12 ELSE 0)
              + 15 * Len(misspelled)),
           u.warnings
        \o (IF u.hasOfficialDomain THEN <<Warning("OFFICIAL_DOMAIN", lang)>> ELSE <<>>)
        \o (IF fakeGov THEN <<Warning("FAKE_GOVERNMENT", lang)>> ELSE <<>>)
        \o (IF urgencyMatches > 0
            THEN <<WarningN("URGENCY_TACTICS", lang, urgencyMatches)>> ELSE <<>>)
        \o (IF phishingIndicators >= 3
            THEN <<WarningN("PHISHING_KEYWORDS", lang, phishingIndicators)>> ELSE <<>>)
        \o (IF MultipleRedirects(urlsFound) THEN <<Warning("MULTIPLE_REDIRECTS", lang)>> ELSE <<>>)
        \o (IF unofficial THEN <<Warning("UNOFFICIAL_SOURCE", lang)>> ELSE <<>>)
        \o (IF personal THEN <<Warning("PERSONAL_INFO", lang)>> ELSE <<>>)
        \o (IF mixed THEN <<Warning("MIXED_LANGUAGE", lang)>> ELSE <<>>)
        \o [i \in 1..Len(misspelled) |->
               WarningUrl("MISSPELLED_TERM", lang, misspelled[i], 0)],
        urlsFound, lang)

\* the checks on the text with the urgency phrases of the interface language
\* only, when that language is Arabic
EnhancedChecksInOneLanguage(text, textLower, lang, urlsFound, u) ==
    EnhancedScore(lang, urlsFound, u,
        FakeGovernment(textLower, urlsFound > 0, u.hasOfficialDomain),
        IF lang = "ar" THEN UrgencyMatchesArabicOnly(textLower) ELSE UrgencyMatches(textLower),
        PhishingIndicators(textLower),
        UnofficialSource(urlsFound > 0, u.hasOfficialDomain),
        PersonalInfo(textLower),
        MixedLanguage(text),
        MisspelledFound(text))

\* the checks on the text (script.js:522-649), after the loop over the URLs
EnhancedChecks(text, textLower, lang, urlsFound, u) ==
    EnhancedScore(lang, urlsFound, u,
        FakeGovernment(textLower, urlsFound > 0, u.hasOfficialDomain),
        UrgencyMatches(textLower),
        PhishingIndicators(textLower),
        UnofficialSource(urlsFound > 0, u.hasOfficialDomain),
        PersonalInfo(textLower),
        MixedLanguage(text),
        MisspelledFound(text))

performEnhancedAnalysis(text, lang) ==
    EnhancedChecks(text, toLowerCase(text), lang, Len(extractURLs(text)),
        ForEachUrl(extractURLs(text), 1, lang,
            [riskScore |-> 0, warnings |-> <<>>, hasOfficialDomain |-> FALSE]))

-----------------------------------------------------------------------------
(* combineMLWithEnhancedAnalysis (script.js:690-744)                       *)
(*                                                                         *)
(* mlData is the parsed body of the classifier's response: undefined, null *)
(* or an object whose url_predictions field may be missing.  A prediction  *)
(* is [url, probability], the probability in thousandths.                  *)

MlUndefined == [kind |-> "undefined", hasPredictions |-> FALSE, url_predictions |-> <<>>]
MlNull == [kind |-> "null", hasPredictions |-> FALSE, url_predictions |-> <<>>]
MlNoField == [kind |-> "object", hasPredictions |-> FALSE, url_predictions |-> <<>>]
MlObject(preds) == [kind |-> "object", hasPredictions |-> TRUE, url_predictions |-> preds]

\* !mlData || !mlData.url_predictions || mlData.url_predictions.length === 0
NoExternalScore(mlData) ==
    \/ mlData.kind # "object"
    \/ ~mlData.hasPredictions
    \/ Len(mlData.url_predictions) = 0

\* Math.round(probability * 100), the probability in thousandths
RoundPercent(probability) == (probability + 5) \div 10

\* the boost with the confidence levels compared by > in place of >=
PredictionBoostAboveLevels(pred) ==
    IF pred.probability > ML_HIGH_CONFIDENCE THEN 35
    ELSE IF pred.probability > ML_MEDIUM_CONFIDENCE THEN 20
    ELSE IF pred.probability > ML_LOW_CONFIDENCE THEN 8
    ELSE 0

\* the body of mlPredictions.forEach (script.js:701-721): the boost it adds
PredictionBoost(pred) ==
    IF pred.probability >= ML_HIGH_CONFIDENCE THEN 35
    ELSE IF pred.probability >= ML_MEDIUM_CONFIDENCE THEN 20
    ELSE IF pred.probability >= ML_LOW_CONFIDENCE THEN 8
    ELSE 0

\* ... and the warnings it pushes
PredictionWarnings(pred, lang) ==
    IF pred.probability >= ML_HIGH_CONFIDENCE
    THEN <<WarningUrl("ML_HIGH_RISK", lang, pred.url, RoundPercent(pred.probability))>>
    ELSE IF pred.probability >= ML_MEDIUM_CONFIDENCE
    THEN <<WarningUrl("ML_SUSPICIOUS", lang, pred.url, RoundPercent(pred.probability))>>
    ELSE <<>>

RECURSIVE MlBoost(_, _)
MlBoost(preds, i) ==
    IF i > Len(preds) THEN 0 ELSE PredictionBoost(preds[i]) + MlBoost(preds, i + 1)

RECURSIVE MlWarnings(_, _, _)
MlWarnings(preds, i, lang) ==
    IF i > Len(preds) THEN <<>>
    ELSE PredictionWarnings(preds[i], lang) \o MlWarnings(preds, i + 1, lang)

\* the blending without its early return: a response without predictions
\* leaves its mark in the warnings
BlendMLWithoutEarlyReturn(ruleBasedResult, mlData, lang) ==
    LET preds == mlData.url_predictions
        riskScore == Clamp(ruleBasedResult.riskScore + MlBoost(preds, 1))
        classification == Classify(riskScore)
        mlWarnings == IF preds = <<>> THEN <<Warning("ML_NO_PREDICTIONS", lang)>>
                      ELSE MlWarnings(preds, 1, lang)
    IN  [ruleBasedResult EXCEPT
            !.riskScore = riskScore,
            !.warnings = @ \o mlWarnings,
            !.classification = classification,
            !.classification_ar = t(ClassificationKey(classification), lang),
            !.icon = Icon(classification)]

\* the blending without the second classification: the tier stays the one
\* performEnhancedAnalysis gave
BlendMLWithoutReclassify(ruleBasedResult, mlData, lang) ==
    IF NoExternalScore(mlData) THEN ruleBasedResult
    ELSE LET preds == mlData.url_predictions
         IN  [ruleBasedResult EXCEPT
                 !.riskScore = Clamp(@ + MlBoost(preds, 1)),
                 !.warnings = @ \o MlWarnings(preds, 1, lang)]

\* the blending with the flag list assigned instead of extended: the flags of
\* performEnhancedAnalysis are lost
BlendMLReplacesWarnings(ruleBasedResult, mlData, lang) ==
    IF NoExternalScore(mlData) THEN ruleBasedResult
    ELSE [BlendMLWithoutReclassify(ruleBasedResult, mlData, lang) EXCEPT
             !.warnings = MlWarnings(mlData.url_predictions, 1, lang),
             !.classification = Classify(Clamp(ruleBasedResult.riskScore + MlBoost(mlData.url_predictions, 1)))]

\* script.js:693-743, given the result of performEnhancedAnalysis(text)
BlendML(ruleBasedResult, mlData, lang) ==
    IF NoExternalScore(mlData) THEN ruleBasedResult
    ELSE LET preds == mlData.url_predictions
             riskScore == Clamp(ruleBasedResult.riskScore + MlBoost(preds, 1))
             classification == Classify(riskScore)
         IN  [ruleBasedResult EXCEPT
                 !.riskScore = riskScore,
                 !.warnings = @ \o MlWarnings(preds, 1, lang),
                 !.classification = classification,
                 !.classification_ar = t(ClassificationKey(classification), lang),
                 !.icon = Icon(classification)]

combineMLWithEnhancedAnalysis(text, mlData, lang) ==
    BlendML(performEnhancedAnalysis(text, lang), mlData, lang)

-----------------------------------------------------------------------------
(* The modular build (src/js): its extractURLs and its local analysis,      *)
(* performLocalAnalysis (js/api.js:136-279)                                *)

\* [...new Set(urls)]: the first occurrence of every element, in order
RECURSIVE Unique(_)
Unique(seq) ==
    IF seq = <<>> THEN <<>>
    ELSE LET init == Unique(SubSeq(seq, 1, Len(seq) - 1))
             last == seq[Len(seq)]
         IN  IF InSeq(init, last) THEN init ELSE Append(init, last)

\* extractURLs of js/api.js:325-343: the same two patterns, the result made unique
apiExtractURLs(text) == Unique(extractURLs(text))

\* shorteners (js/api.js:149)
localShorteners ==
    << <<"b","i","t",".","l","y">>,
       <<"t","i","n","y","u","r","l">>,
       <<"g","o","o",".","g","l">>,
       <<"o","w",".","l","y">>,
       <<"t",".","c","o">>,
       <<"i","s",".","g","d">> >>

\* urgencyPatterns (js/api.js:170)
localUrgencyPatterns ==
    << <<"U+062A","U+0639","U+0644","U+064A","U+0642">>,
       <<"U+0625","U+064A","U+0642","U+0627","U+0641">>,
       <<"s","u","s","p","e","n","d","e","d">>,
       <<"u","r","g","e","n","t">>,
       <<"U+0641","U+0648","U+0631","U+0627","U+064B">>,
       <<"i","m","m","e","d","i","a","t","e","l","y">> >>

\* govServices (js/api.js:178)
localGovServices ==
    << <<"U+0623","U+0628","U+0634","U+0631">>,
       <<"a","b","s","h","e","r">>,
       <<"U+0646","U+0627","U+062C","U+0632">>,
       <<"n","a","j","i","z">>,
       <<"U+0648","U+0632","U+0627","U+0631","U+0629">>,
       <<"m","i","n","i","s","t","r","y">> >>

\* officialDomains (js/api.js:179)
localOfficialDomains ==
    << <<"a","b","s","h","e","r",".","s","a">>,
       <<"n","a","j","i","z",".","s","a">>,
       <<".","g","o","v",".","s","a">> >>

\* sensitiveKeywords (js/api.js:191-192)
localSensitiveKeywords ==
    << <<"p","a","s","s","w","o","r","d">>,
       <<"p","i","n">>,
       <<"o","t","p">>,
       <<"c","v","v">>,
       <<"U+0643","U+0644","U+0645","U+0629"," ","U+0627","U+0644","U+0645","U+0631","U+0648","U+0631">>,
       <<"U+0631","U+0645","U+0632"," ","U+0627","U+0644","U+062A","U+062D","U+0642","U+0642">>,
       <<"U+0628","U+0637","U+0627","U+0642","U+0629">> >>

\* getIconForClassification (js/api.js:121-129)
getIconForClassification(classification) ==
    CASE classification = "SAFE" -> "check"
      [] classification = "LOW_RISK" -> "warning"
      [] classification = "SUSPICIOUS" -> "siren"
      [] classification = "HIGH_RISK" -> "cross"
      [] OTHER -> "check"

\* getExplanationText (js/api.js:279-307), isTrusted false: the sentence is
\* chosen by the language and the classification and interpolates the score
getExplanationText(classification, riskScore, language) ==
    [lang |-> language, tier |-> classification, score |-> riskScore]

\* the four tiers of performLocalAnalysis (js/api.js:203-216)
LocalClassify(riskScore) ==
    IF riskScore <= 30 THEN "SAFE"
    ELSE IF riskScore <= 55 THEN "LOW_RISK"
    ELSE IF riskScore <= 75 THEN "SUSPICIOUS"
    ELSE "HIGH_RISK"

\* the result object (js/api.js:233-273).  A score of the modular build is a
\* number, kept here in tenths (risk_score 42.5 is 425); 0 stands for every
\* falsy value of `a || b || 0`.
LocalReport(riskScore, flags, urlsFound, lang) ==
    [ classification |-> LocalClassify(riskScore),
      classification_ar |-> <<"ar", LocalClassify(riskScore)>>,
      explanation |-> getExplanationText(LocalClassify(riskScore), riskScore, lang),
      risk_score |-> riskScore * 10,
      riskScore |-> riskScore * 10,
      combined_risk_score |-> riskScore * 10,
      red_flags |-> IF flags = <<>> THEN <<"No significant red flags detected">> ELSE flags,
      urls_found |-> urlsFound,
      icon |-> getIconForClassification(LocalClassify(riskScore)),
      status |-> "success" ]

\* the penalties and the flags of the checks (js/api.js:145-201)
LocalScore(urlsFound, hasShorteners, insecure, urgency, impersonation, sensitive, lang) ==
    LocalReport(
        Min(100,   (IF urlsFound > 0 THEN 15 ELSE 0)
                 + (IF hasShorteners THEN 35 ELSE 0)
                 + (IF insecure THEN 20 ELSE 0)
                 + (IF urgency THEN 25 ELSE 0)
                 + (IF impersonation THEN 35 ELSE 0)
                 + (IF sensitive THEN 30 ELSE 0)),
           (IF hasShorteners THEN <<"Contains shortened URLs">> ELSE <<>>)
        \o (IF insecure THEN <<"Insecure HTTP links">> ELSE <<>>)
        \o (IF urgency THEN <<"Urgency tactics">> ELSE <<>>)
        \o (IF impersonation THEN <<"Potential government impersonation">> ELSE <<>>)
        \o (IF sensitive THEN <<"Requests sensitive information">> ELSE <<>>),
        urlsFound, lang)

\* the checks (js/api.js:145-196) on the URLs found and the lower-cased text
LocalChecks(urls, textLower, lang) ==
    LocalScore(Len(urls),
        \E i \in 1..Len(urls) : SomeIncluded(toLowerCase(urls[i]), localShorteners),
        \E i \in 1..Len(urls) :
            StartsWith(toLowerCase(urls[i]), <<"h","t","t","p",":","/","/">>),
        \E i \in 1..Len(localUrgencyPatterns) :
            Includes(textLower, toLowerCase(localUrgencyPatterns[i])),
        /\ \E i \in 1..Len(localGovServices) :
               Includes(textLower, toLowerCase(localGovServices[i]))
        /\ Len(urls) > 0
        /\ ~ \E i \in 1..Len(urls) :
                 SomeIncluded(toLowerCase(urls[i]), localOfficialDomains),
        SomeIncluded(textLower, localSensitiveKeywords),
        lang)

performLocalAnalysis(text, lang) ==
    LocalChecks(apiExtractURLs(text), toLowerCase(text), lang)

\* processEnhancedAPIResponse (js/api.js:68-112): the fields the page shows.
\* data is the parsed body; a missing field is "" (a string), 0 (a number) or
\* <<>> (a list).
processEnhancedAPIResponse(data) ==
    [ classification |-> data.classification,
      classification_ar |-> data.classification_ar,
      explanation |-> data.explanation,
      risk_score |-> data.risk_score,
      riskScore |-> data.risk_score,
      combined_risk_score |-> data.combined_risk_score,
      red_flags |-> data.red_flags,
      urls_found |-> data.urls_found,
      icon |-> getIconForClassification(data.classification),
      status |-> data.status ]

-----------------------------------------------------------------------------
(* Inputs                                                                  *)

\* the largest number of vocabulary items in a generated message
MaxWords == 2
\* the largest number of predictions in a generated classifier response
MaxPreds == 2

\* "hello", "suspended", "password", "Absher", "bit.ly/x", "http://evil.tk",
\* "https://absher.sa", "www.absher.sa", and the Arabic word U+0623 U+0628 U+0634 U+0631
Vocabulary ==
    << <<"h","e","l","l","o">>,
       <<"s","u","s","p","e","n","d","e","d">>,
       <<"p","a","s","s","w","o","r","d">>,
       <<"A","b","s","h","e","r">>,
       <<"b","i","t",".","l","y","/","x">>,
       <<"h","t","t","p",":","/","/","e","v","i","l",".","t","k">>,
       <<"h","t","t","p","s",":","/","/","a","b","s","h","e","r",".","s","a">>,
       <<"w","w","w",".","a","b","s","h","e","r",".","s","a">>,
       <<"U+0623","U+0628","U+0634","U+0631">> >>

\* the words joined by single spaces
RECURSIVE JoinWords(_)
JoinWords(ws) ==
    IF ws = <<>> THEN <<>>
    ELSE IF Len(ws) = 1 THEN ws[1]
    ELSE ws[1] \o <<" ">> \o JoinWords(Tail(ws))

\* every message of at most MaxWords vocabulary items
WordMessages ==
    UNION { { JoinWords([i \in 1..n |-> Vocabulary[f[i]]]) :
                f \in [1..n -> 1..Len(Vocabulary)] } : n \in 0..MaxWords }

HttpsPrefix == <<"h","t","t","p","s",":","/","/">>
HttpPrefix == <<"h","t","t","p",":","/","/">>
BillsPath == <<"/","b","i","l","l","s">>

\* a message whose only URL is the official domain d: bare or with a scheme,
\* with or without a path
OfficialForms(d) ==
    { d, d \o BillsPath, HttpsPrefix \o d, HttpsPrefix \o d \o BillsPath, HttpPrefix \o d }

OfficialMessages == UNION { OfficialForms(OFFICIAL_DOMAINS[i]) : i \in 1..Len(OFFICIAL_DOMAINS) }

\* "Your Absher account has been suspended. Click bit.ly/abs123 to update within 24 hours"
ScenarioSuspended ==
    <<"Y","o","u","r"," ","A","b","s","h","e","r"," ","a","c","c","o","u","n","t"," ","h","a","s"," ","b","e","e","n"," ","s","u","s","p","e","n","d","e","d","."," ","C","l","i","c","k"," ","b","i","t",".","l","y","/","a","b","s","1","2","3"," ","t","o"," ","u","p","d","a","t","e"," ","w","i","t","h","i","n"," ","2","4"," ","h","o","u","r","s">>

\* "Your electricity bill is due. Pay at https://www.absher.sa/bills"
ScenarioBill ==
    <<"Y","o","u","r"," ","e","l","e","c","t","r","i","c","i","t","y"," ","b","i","l","l"," ","i","s"," ","d","u","e","."," ","P","a","y"," ","a","t"," ","h","t","t","p","s",":","/","/","w","w","w",".","a","b","s","h","e","r",".","s","a","/","b","i","l","l","s">>

\* "https://a.com", ..., "https://g.com": URLs on which no check of the URL
\* loop fires, and "https://t.com", which holds the shortener name "t.co"
PlainUrls ==
    [ i \in 1..7 |-> HttpsPrefix \o <<(<<"a","b","c","d","e","g","t">>)[i]>> \o <<".","c","o","m">> ]

\* the messages made of five different URLs of PlainUrls, in their order
FiveUrlMessages ==
    { JoinWords([i \in 1..5 |-> PlainUrls[f[i]]]) :
        f \in { g \in [1..5 -> 1..Len(PlainUrls)] : \A i \in 1..4 : g[i] < g[i + 1] } }

\* "https://absher.sa.evil.tk": an official name as the leading labels of
\* another host
ScenarioLookalikeHost ==
    <<"h","t","t","p","s",":","/","/","a","b","s","h","e","r",".","s","a",".","e","v","i","l",".","t","k">>

\* "http://evil.tk/absher.sa": an official name in the path
ScenarioLookalikePath ==
    <<"h","t","t","p",":","/","/","e","v","i","l",".","t","k","/","a","b","s","h","e","r",".","s","a">>

\* messages with 1, 2, 3 and 4 phrases of PHISHING_PATTERNS and nothing else:
\* "prize", "prize reward", "you won prize reward",
\* "you won prize reward congratulations"
PhishingMessages ==
    { <<"p","r","i","z","e">>,
      <<"p","r","i","z","e"," ","r","e","w","a","r","d">>,
      <<"y","o","u"," ","w","o","n"," ","p","r","i","z","e"," ","r","e","w","a","r","d">>,
      <<"y","o","u"," ","w","o","n"," ","p","r","i","z","e"," ","r","e","w","a","r","d"," ","c","o","n","g","r","a","t","u","l","a","t","i","o","n","s">> }

\* a host under a suspicious TLD alone, then followed by a path, a port and a
\* query string: "http://evil.tk", "http://evil.tk/login",
\* "http://evil.tk:8080", "http://evil.tk?id=1"
SuspiciousTldMessages ==
    { <<"h","t","t","p",":","/","/","e","v","i","l",".","t","k">>,
      <<"h","t","t","p",":","/","/","e","v","i","l",".","t","k","/","l","o","g","i","n">>,
      <<"h","t","t","p",":","/","/","e","v","i","l",".","t","k",":","8","0","8","0">>,
      <<"h","t","t","p",":","/","/","e","v","i","l",".","t","k","?","i","d","=","1">> }

\* bare hosts of three and four labels: "www.absher.sa", "moi.gov.sa",
\* "secure.login.evil.tk"
BareHostMessages ==
    { <<"w","w","w",".","a","b","s","h","e","r",".","s","a">>,
      <<"m","o","i",".","g","o","v",".","s","a">>,
      <<"s","e","c","u","r","e",".","l","o","g","i","n",".","e","v","i","l",".","t","k">> }

Corpus ==
    WordMessages \cup OfficialMessages \cup {ScenarioSuspended, ScenarioBill}
        \cup FiveUrlMessages \cup {ScenarioLookalikeHost, ScenarioLookalikePath}
        \cup PhishingMessages \cup SuspiciousTldMessages
        \cup BareHostMessages

\* shortener URLs added to a message: "bit.ly/x", "https://tinyurl.com/y"
ShortenerURLs ==
    { <<"b","i","t",".","l","y","/","x">>,
      <<"h","t","t","p","s",":","/","/","t","i","n","y","u","r","l",".","c","o","m","/","y">> }

-----------------------------------------------------------------------------
(* State                                                                    *)

\* the largest number of analyzeMessage invocations that get past validation
MaxAnalyses == 1

VARIABLES
    currentLanguage,  \* let currentLanguage (script.js:11)
    engText,          \* the message handed to performEnhancedAnalysis
    engFirst,         \* what the first call on engText returned (<<>>: no call yet)
    engLast,          \* what the call that has just returned returned
    engBase,          \* what the call on the message returned before a URL was added
    blendText,        \* the message handed to combineMLWithEnhancedAnalysis
    blendOut,         \* the call that has just returned: its arguments and results
    build,            \* the page's script: "script.js" or the modular "js/"
    textarea,         \* the value of #messageInput
    calls,            \* the invocations of analyzeMessage, in the order they started
    loading,          \* #loading has the class show
    resultCard,       \* #resultCard: whether it has the class show, and its content
    analysisHistory,  \* let analysisHistory (script.js:10)
    localStorage,     \* the item HISTORY_KEY of localStorage, and whether the quota is used up
    notification,     \* the text of the last notification shown (<<>>: none)
    console,          \* the last error written by console.error (<<>>: none)
    started           \* the number of invocations that got past validation

engVars == <<engText, engFirst, engLast, engBase>>
blendVars == <<blendText, blendOut>>
pageVars == <<build, textarea, calls, loading, resultCard, analysisHistory,
              localStorage, notification, console, started>>
vars == <<currentLanguage, engVars, blendVars, pageVars>>

Languages == {"ar", "en"}

\* an invocation of analyzeMessage that has not started, and one that has
\* run to its end
IdleCall == [pc |-> "idle", text |-> <<>>, timer |-> FALSE]
DoneCall == [pc |-> "done", text |-> <<>>, timer |-> FALSE]

\* localStorage without the item, the quota not used up
EmptyStorage == [item |-> <<>>, full |-> FALSE]

EngIdle == engText = <<>> /\ engFirst = <<>> /\ engLast = <<>> /\ engBase = <<>>
BlendIdle == blendText = <<>> /\ blendOut = <<>>
PageIdle ==
    /\ build = "script.js"
    /\ textarea = [value |-> <<>>, dir |-> "auto"]
    /\ calls = [c \in 1..MaxAnalyses |-> IdleCall]
    /\ loading = FALSE
    /\ resultCard = [show |-> FALSE, content |-> <<>>]
    /\ analysisHistory = <<>>
    /\ localStorage = EmptyStorage
    /\ notification = <<>>
    /\ console = <<>>
    /\ started = 0

\* toggleLanguage (script.js:830-839)
ToggleLanguage ==
    /\ currentLanguage' = IF currentLanguage = "ar" THEN "en" ELSE "ar"
    /\ UNCHANGED <<engVars, blendVars, pageVars>>

-----------------------------------------------------------------------------
(* The engine called directly: performEnhancedAnalysis on a message, again  *)
(* on the same message, and on the message with a shortener URL added       *)

Returned(res) == [lang |-> currentLanguage, res |-> res]

EngInit ==
    /\ currentLanguage = "ar"
    /\ engText \in Corpus
    /\ engFirst = <<>>
    /\ engLast = <<>>
    /\ engBase = <<>>
    /\ BlendIdle
    /\ PageIdle

\* a call of performEnhancedAnalysis(engText)
EngAnalyze ==
    /\ engLast = <<>>
    /\ engBase = <<>>
    /\ engLast' = <<Returned(performEnhancedAnalysis(engText, currentLanguage))>>
    /\ engFirst' = IF engFirst = <<>> THEN engLast' ELSE engFirst
    /\ UNCHANGED <<currentLanguage, engText, engBase, blendVars, pageVars>>

\* the caller drops the result
EngReturn ==
    /\ engLast # <<>>
    /\ engBase = <<>>
    /\ engLast' = <<>>
    /\ UNCHANGED <<currentLanguage, engText, engFirst, engBase, blendVars, pageVars>>

\* performEnhancedAnalysis on the message, then on the message with the
\* shortener URL u added after (or before) it, a space between them
EngAddShortener(u, front) ==
    /\ engFirst = <<>>
    /\ engBase = <<>>
    /\ engText \in WordMessages
    /\ engBase' = <<Returned(performEnhancedAnalysis(engText, currentLanguage))>>
    /\ engText' = IF front THEN u \o <<" ">> \o engText ELSE engText \o <<" ">> \o u
    /\ engLast' = <<Returned(performEnhancedAnalysis(engText', currentLanguage))>>
    /\ engFirst' = engLast'
    /\ UNCHANGED <<currentLanguage, blendVars, pageVars>>

EngNext ==
    \/ EngAnalyze
    \/ EngReturn
    \/ ToggleLanguage
    \/ \E u \in ShortenerURLs, front \in BOOLEAN : EngAddShortener(u, front)

SpecEngine == EngInit /\ [][EngNext]_vars

-----------------------------------------------------------------------------
(* The engine with the classifier's response: performEnhancedAnalysis and   *)
(* combineMLWithEnhancedAnalysis on a message and a response                *)

\* "Absher password urgent http://1.2.3.4:8080/login-verify-a-b-c@x.tk": a
\* message on which eleven checks fire
ScenarioManyFlags ==
    <<"A","b","s","h","e","r"," ","p","a","s","s","w","o","r","d"," ","u","r","g","e","n","t"," ","h","t","t","p",":","/","/","1",".","2",".","3",".","4",":","8","0","8","0","/","l","o","g","i","n","-","v","e","r","i","f","y","-","a","-","b","-","c","@","x",".","t","k">>

\* "", "hello", "password" (25), "suspended bit.ly/x" (57), "https://absher.sa"
\* (-30 before the clamp), "Absher http://evil.tk" (115 before the clamp) and
\* the suspended-account scenario (112 before the clamp), and the message of
\* eleven flags
BlendTexts ==
    { <<>>,
      <<"h","e","l","l","o">>,
      <<"p","a","s","s","w","o","r","d">>,
      <<"s","u","s","p","e","n","d","e","d"," ","b","i","t",".","l","y","/","x">>,
      <<"h","t","t","p","s",":","/","/","a","b","s","h","e","r",".","s","a">>,
      <<"A","b","s","h","e","r"," ","h","t","t","p",":","/","/","e","v","i","l",".","t","k">>,
      ScenarioSuspended,
      ScenarioManyFlags }

\* probabilities, in thousandths: each confidence level, the value just below
\* it, and the two ends
Probabilities == {0, 299, 300, 499, 500, 749, 750, 1000}

\* the url of a prediction: "bit.ly/x"
PredictionUrl == <<"b","i","t",".","l","y","/","x">>

\* the url of a second prediction: "http://evil.tk"
OtherPredictionUrl == <<"h","t","t","p",":","/","/","e","v","i","l",".","t","k">>

Predictions ==
    { [url |-> PredictionUrl, probability |-> p] : p \in Probabilities }
        \cup { [url |-> OtherPredictionUrl, probability |-> 750] }

\* every list of at most MaxPreds predictions
PredictionLists == UNION { [1..n -> Predictions] : n \in 0..MaxPreds }

\* the parsed responses: undefined, null, an object without url_predictions,
\* and an object with each list of predictions
MlResponses == {MlUndefined, MlNull, MlNoField} \cup { MlObject(l) : l \in PredictionLists }

BlendInit ==
    /\ currentLanguage = "ar"
    /\ blendText \in BlendTexts
    /\ blendOut = <<>>
    /\ EngIdle
    /\ PageIdle

\* a call of performEnhancedAnalysis(blendText)
BlendPerform ==
    /\ blendOut = <<>>
    /\ LET rule == performEnhancedAnalysis(blendText, currentLanguage)
       IN  blendOut' = << [ fn |-> "performEnhancedAnalysis", lang |-> currentLanguage,
                            mlData |-> MlUndefined, rule |-> rule, res |-> rule ] >>
    /\ UNCHANGED <<currentLanguage, blendText, engVars, pageVars>>

\* a call of combineMLWithEnhancedAnalysis(blendText, mlData); rule is what
\* performEnhancedAnalysis(blendText) returns at this time
BlendCombine ==
    /\ blendOut = <<>>
    /\ LET rule == performEnhancedAnalysis(blendText, currentLanguage)
       IN  \E mlData \in MlResponses :
               blendOut' = << [ fn |-> "combineMLWithEnhancedAnalysis",
                                lang |-> currentLanguage, mlData |-> mlData,
                                rule |-> rule,
                                res |-> BlendML(rule, mlData, currentLanguage) ] >>
    /\ UNCHANGED <<currentLanguage, blendText, engVars, pageVars>>

\* the caller drops the result
BlendReturn ==
    /\ blendOut # <<>>
    /\ blendOut' = <<>>
    /\ UNCHANGED <<currentLanguage, blendText, engVars, pageVars>>

BlendNext ==
    \/ BlendPerform
    \/ BlendCombine
    \/ BlendReturn
    \/ ToggleLanguage

SpecBlend == BlendInit /\ [][BlendNext]_vars

-----------------------------------------------------------------------------
(* The older variant of the page script (unnamed/part_002):                 *)
(* performRuleBasedAnalysis and combineAnalysis                             *)

\* officialDomains (part_002:612-618)
officialDomains ==
    <<
      <<"a","b","s","h","e","r",".","s","a">>,
      <<"w","w","w",".","a","b","s","h","e","r",".","s","a">>,
      <<"m","o","i",".","g","o","v",".","s","a">>,
      <<"w","w","w",".","m","o","i",".","g","o","v",".","s","a">>,
      <<"m","y",".","g","o","v",".","s","a">>,
      <<"w","w","w",".","m","y",".","g","o","v",".","s","a">>,
      <<"s","a",".","g","o","v",".","s","a">>,
      <<"w","w","w",".","s","a",".","g","o","v",".","s","a">>,
      <<".","g","o","v",".","s","a">>
    >>

\* shorteners (part_002:631)
shorteners ==
    <<
      <<"b","i","t",".","l","y">>,
      <<"t","i","n","y","u","r","l",".","c","o","m">>,
      <<"t",".","c","o">>,
      <<"t","m","r","a",".","p","e">>,
      <<"g","o","o",".","g","l">>,
      <<"i","s",".","g","d">>,
      <<"o","w",".","l","y">>,
      <<"r","e","b","r","a","n","d",".","l","y">>,
      <<"b","u","f","f",".","l","y">>
    >>

\* urgentKeywords (part_002:657), Arabic phrases
urgentKeywords ==
    <<
      <<"U+062A","U+0645"," ","U+062A","U+0639","U+0644","U+064A","U+0642">>,
      <<"U+062A","U+0645"," ","U+0625","U+064A","U+0642","U+0627","U+0641">>,
      <<"U+062E","U+0644","U+0627","U+0644"," ","2","4"," ","U+0633","U+0627","U+0639","U+0629">>,
      <<"U+0627","U+062F","U+0641","U+0639"," ","U+0627","U+0644","U+0622","U+0646">>,
      <<"U+0642","U+0645"," ","U+0628","U+062A","U+062D","U+062F","U+064A","U+062B">>,
      <<"U+0641","U+0648","U+0631","U+0627","U+064B">>,
      <<"U+062D","U+0627","U+0644","U+0627","U+064B">>,
      <<"U+0639","U+0627","U+062C","U+0644">>
    >>

\* phishingKeywords (part_002:665): four Arabic phrases, 'confirm account',
\* 'update now', 'click here'
phishingKeywords ==
    <<
      <<"U+0627","U+0636","U+063A","U+0637"," ","U+0647","U+0646","U+0627">>,
      <<"U+0627","U+0646","U+0642","U+0631"," ","U+0641","U+0648","U+0631","U+0627","U+064B">>,
      <<"U+062A","U+062D","U+062F","U+064A","U+062B"," ","U+0645","U+0639","U+0644","U+0648","U+0645","U+0627","U+062A","U+0643">>,
      <<"U+062A","U+0623","U+0643","U+064A","U+062F"," ","U+0627","U+0644","U+062D","U+0633","U+0627","U+0628">>,
      <<"c","o","n","f","i","r","m"," ","a","c","c","o","u","n","t">>,
      <<"u","p","d","a","t","e"," ","n","o","w">>,
      <<"c","l","i","c","k"," ","h","e","r","e">>
    >>

\* urls.some(url => officialDomains.some(official => url.toLowerCase().includes(official)))
\* (part_002:622-624)
OldHasOfficialDomain(urls) ==
    \E i \in 1..Len(urls) : SomeIncluded(toLowerCase(urls[i]), officialDomains)

\* foundShorteners.length > 0 (part_002:632-634)
OldFoundShorteners(urls) ==
    \E i \in 1..Len(urls) : SomeIncluded(toLowerCase(urls[i]), shorteners)

\* insecureUrls.length > 0 (part_002:639-646): http:// and not .gov.sa
OldInsecureUrls(urls) ==
    \E i \in 1..Len(urls) :
        /\ StartsWith(toLowerCase(urls[i]), HttpPrefix)
        /\ ~StartsWith(toLowerCase(urls[i]), HttpsPrefix)
        /\ ~Includes(toLowerCase(urls[i]), <<".","g","o","v",".","s","a">>)

\* text.match(/<Arabic name>|absher/i) (part_002:651)
mentionsAbsher(text) ==
    \/ Includes(text, <<"U+0623","U+0628","U+0634","U+0631">>)
    \/ Includes(toLowerCase(text), <<"a","b","s","h","e","r">>)

\* the tier of performRuleBasedAnalysis (part_002:681)
RuleBasedTier(riskScore) ==
    IF riskScore <= 30 THEN "SAFE"
    ELSE IF riskScore <= 65 THEN "SUSPICIOUS"
    ELSE "FRAUD"

\* the tier of combineAnalysis (part_002:590-602)
CombinedTier(riskScore) ==
    IF riskScore <= 10 THEN "SAFE"
    ELSE IF riskScore <= 60 THEN "SUSPICIOUS"
    ELSE "FRAUD"

\* the warning pushed when the check fired
WarnIf(fired, key, lang) == IF fired THEN <<t(key, lang)>> ELSE <<>>

\* the object performRuleBasedAnalysis returns (part_002:678-688)
RuleBasedResult(riskScore, warnings, urlsFound, lang) ==
    [ classification |-> RuleBasedTier(riskScore),
      classification_ar |-> t(ClassificationKey(RuleBasedTier(riskScore)), lang),
      riskScore |-> riskScore,
      icon |-> Icon(RuleBasedTier(riskScore)),
      explanation |-> t("explanation", lang),
      warnings |-> warnings,
      urlsFound |-> urlsFound ]

\* the score and the warnings of the checks, in their order (part_002:626-678)
RuleBasedScore(lang, urlsFound, official, shortener, insecure, fakeAbsher, urgent, phishing, unofficial) ==
    RuleBasedResult(
        Clamp((IF official THEN -20 ELSE 0) + (IF shortener THEN 25 ELSE 0)
              + (IF insecure THEN 30 ELSE 0) + (IF fakeAbsher THEN 30 ELSE 0)
              + (IF urgent THEN 20 ELSE 0) + (IF phishing THEN 15 ELSE 0)
              + (IF unofficial THEN 10 ELSE 0)),
        WarnIf(official, "warnOfficialLink", lang) \o WarnIf(shortener, "warnShortener", lang)
            \o WarnIf(insecure, "warnInsecure", lang) \o WarnIf(fakeAbsher, "warnFakeAbsher", lang)
            \o WarnIf(urgent, "warnUrgent", lang) \o WarnIf(phishing, "warnPhishing", lang)
            \o WarnIf(unofficial, "warnUnofficial", lang),
        urlsFound, lang)

\* the checks of performRuleBasedAnalysis (part_002:619-676)
RuleBasedChecks(text, textLower, urls, lang) ==
    RuleBasedScore(lang, Len(urls),
        OldHasOfficialDomain(urls),
        OldFoundShorteners(urls),
        OldInsecureUrls(urls),
        mentionsAbsher(text) /\ Len(urls) > 0 /\ ~OldHasOfficialDomain(urls),
        SomeIncluded(text, urgentKeywords),
        \E i \in 1..Len(phishingKeywords) : Includes(textLower, toLowerCase(phishingKeywords[i])),
        Len(urls) > 0 /\ ~OldHasOfficialDomain(urls))

\* performRuleBasedAnalysis (part_002:607-689); extractURLs (part_002:691-707)
\* is the extractURLs of script.js
performRuleBasedAnalysis(text, lang) ==
    RuleBasedChecks(text, toLowerCase(text), extractURLs(text), lang)

\* a parsed response of the older classifier: an object with or without
\* url_predictions, and its ml_risk_score
OldMlObject(hasPredictions, preds, score) ==
    [ kind |-> "object", hasPredictions |-> hasPredictions, url_predictions |-> preds,
      ml_risk_score |-> score ]

\* the riskScore after the first if of combineAnalysis (part_002:584-588)
CombinedScore(riskScore, mlData) ==
    IF mlData.hasPredictions /\ Len(mlData.url_predictions) > 0 /\ mlData.ml_risk_score > 50
    THEN Max(riskScore, mlData.ml_risk_score)
    ELSE riskScore

\* the result with the score and the tier of combineAnalysis written into it
\* (part_002:590-604); classification_ar is the Arabic text in every language
Reclassified(ruleBasedResult, riskScore) ==
    [ ruleBasedResult EXCEPT
        !.riskScore = riskScore,
        !.classification = CombinedTier(riskScore),
        !.classification_ar = t(ClassificationKey(CombinedTier(riskScore)), "ar"),
        !.icon = Icon(CombinedTier(riskScore)) ]

\* combineAnalysis (part_002:581-605)
combineAnalysis(text, mlData, lang) ==
    Reclassified(performRuleBasedAnalysis(text, lang),
                 CombinedScore(performRuleBasedAnalysis(text, lang).riskScore, mlData))

\* "", "hello", "click here" (15), "https://a.com" (10), "bit.ly/x" (35),
\* "http://bit.ly/x" (65), "Absher http://evil.tk" (70), "https://absher.sa"
\* (-20 before the clamp), and the Arabic word for urgent (20)
OldTexts ==
    { <<>>,
      <<"h","e","l","l","o">>,
      <<"c","l","i","c","k"," ","h","e","r","e">>,
      <<"h","t","t","p","s",":","/","/","a",".","c","o","m">>,
      <<"b","i","t",".","l","y","/","x">>,
      <<"h","t","t","p",":","/","/","b","i","t",".","l","y","/","x">>,
      <<"A","b","s","h","e","r"," ","h","t","t","p",":","/","/","e","v","i","l",".","t","k">>,
      <<"h","t","t","p","s",":","/","/","a","b","s","h","e","r",".","s","a">>,
      <<"U+0639","U+0627","U+062C","U+0644">> }

\* the scores of the older classifier: none, the level of the test and the
\* values around it, and a high one
OldMlScores == {0, 50, 51, 80}

\* the parsed responses: an object without url_predictions, with an empty
\* list, and with one prediction, each with every score
OldMlResponses ==
    { OldMlObject(FALSE, <<>>, s) : s \in OldMlScores }
        \cup { OldMlObject(TRUE, <<>>, s) : s \in OldMlScores }
        \cup { OldMlObject(TRUE, <<[url |-> PredictionUrl, probability |-> 750]>>, s) :
                 s \in OldMlScores }

OldInit ==
    /\ currentLanguage = "ar"
    /\ blendText \in OldTexts
    /\ blendOut = <<>>
    /\ EngIdle
    /\ PageIdle

\* the catch block of the older analyzeMessage (part_002:572-575): a call of
\* performRuleBasedAnalysis(blendText)
OldPerform ==
    /\ blendOut = <<>>
    /\ LET rule == performRuleBasedAnalysis(blendText, currentLanguage)
       IN  blendOut' = << [ fn |-> "performRuleBasedAnalysis", lang |-> currentLanguage,
                            mlData |-> OldMlObject(FALSE, <<>>, 0), rule |-> rule,
                            res |-> rule ] >>
    /\ UNCHANGED <<currentLanguage, blendText, engVars, pageVars>>

\* a call of combineAnalysis(blendText, mlData) (part_002:568-569); rule is
\* what performRuleBasedAnalysis(blendText) returns at this time
OldCombine ==
    /\ blendOut = <<>>
    /\ \E mlData \in OldMlResponses :
           blendOut' = << [ fn |-> "combineAnalysis", lang |-> currentLanguage,
                            mlData |-> mlData,
                            rule |-> performRuleBasedAnalysis(blendText, currentLanguage),
                            res |-> combineAnalysis(blendText, mlData, currentLanguage) ] >>
    /\ UNCHANGED <<currentLanguage, blendText, engVars, pageVars>>

OldNext ==
    \/ OldPerform
    \/ OldCombine
    \/ BlendReturn
    \/ ToggleLanguage

SpecOld == OldInit /\ [][OldNext]_vars

-----------------------------------------------------------------------------
(* The page: analyzeMessage (script.js:1132-1189, js/script.js:133-172),    *)
(* its timers, the remote classifier, and what the user sees                *)

MAX_HISTORY == 20
MAX_MESSAGE_LENGTH == 5000

\* String.prototype.trim
RECURSIVE trimStart(_)
trimStart(s) == IF s # <<>> /\ Head(s) \in Whitespace THEN trimStart(Tail(s)) ELSE s

RECURSIVE trimEnd(_)
trimEnd(s) ==
    IF s # <<>> /\ s[Len(s)] \in Whitespace THEN trimEnd(SubSeq(s, 1, Len(s) - 1)) ELSE s

trim(s) == trimEnd(trimStart(s))

\* validateMessageLength (script.js:341-343)
validateMessageLength(message) == Len(message) <= MAX_MESSAGE_LENGTH

\* what innerHTML gives for one character of textContent
EscapeChar(c) ==
    CASE c = "&" -> <<"&","a","m","p",";">>
      [] c = "<" -> <<"&","l","t",";">>
      [] c = ">" -> <<"&","g","t",";">>
      [] c = "U+00A0" -> <<"&","n","b","s","p",";">>
      [] OTHER -> <<c>>

\* sanitizeHTML (script.js:334-338): textContent read back as innerHTML, the
\* first half of the string and then the second
RECURSIVE sanitizeHTML(_)
sanitizeHTML(str) ==
    IF str = <<>> THEN <<>>
    ELSE IF Len(str) = 1 THEN EscapeChar(str[1])
    ELSE sanitizeHTML(SubSeq(str, 1, Len(str) \div 2))
             \o sanitizeHTML(SubSeq(str, Len(str) \div 2 + 1, Len(str)))

\* String.prototype.substring(0, n)
substring(s, n) == SubSeq(s, 1, Min(n, Len(s)))

\* the input listener of the textarea (script.js:809-827): the direction it sets
AutoDirection(text) ==
    IF \E i \in 1..Len(text) : text[i] \in ArabicChars THEN "rtl"
    ELSE IF Len(text) > 0 THEN "ltr"
    ELSE "auto"

\* a text of MAX_MESSAGE_LENGTH + 1 characters
TooLongText == [i \in 1..(MAX_MESSAGE_LENGTH + 1) |-> "a"]

\* what the textarea may hold: "", " hello ", "Absher bit.ly/x", and a text
\* that is too long
PageTexts ==
    { <<>>,
      <<" ","h","e","l","l","o"," ">>,
      <<"A","b","s","h","e","r"," ","b","i","t",".","l","y","/","x">>,
      TooLongText }

\* the direction the input listener sets for each of them, computed once
TextDirections == [text \in PageTexts |-> AutoDirection(text)]

\* what addToHistory stores of each of them, sanitizeHTML(message.substring(0, 100)),
\* computed once
HistoryMessages == [text \in PageTexts |-> sanitizeHTML(substring(text, 100))]

\* the array written by JSON.stringify and read back by JSON.parse
JsonArray(items) == [kind |-> "array", items |-> items]

\* localStorage.setItem(HISTORY_KEY, JSON.stringify(history)) inside try/catch
\* (script.js:955-959, js/utils.js:87-95): nothing is written when the quota
\* is used up
setItem(storage, history) ==
    IF storage.full THEN storage ELSE [storage EXCEPT !.item = <<JsonArray(history)>>]

\* addToHistory without the limit: unshift only
addToHistoryWithoutLimit(history, message, result, lang) ==
    << [ message |-> HistoryMessages[message],
         classification |-> result.classification,
         classification_ar |-> result.classification_ar,
         riskScore |-> result.riskScore,
         timestamp |-> IF lang = "ar" THEN "ar-SA" ELSE "en-US" ] >> \o history

\* addToHistory (script.js:941-962, js/script.js:475-488): the new analysisHistory
addToHistory(history, message, result, lang) ==
    LET item == [ message |-> HistoryMessages[message],
                  classification |-> result.classification,
                  classification_ar |-> result.classification_ar,
                  riskScore |-> result.riskScore,
                  timestamp |-> IF lang = "ar" THEN "ar-SA" ELSE "en-US" ]
        unshifted == <<item>> \o history
    IN  SubSeq(unshifted, 1, Min(MAX_HISTORY, Len(unshifted)))

\* displayResult (script.js:1191-1243): what it writes into #resultCard
displayResult(result, lang) ==
    [ colorClass |-> IF result.classification = "FRAUD" THEN "fraud"
                     ELSE IF result.classification = "SUSPICIOUS" THEN "suspicious"
                     ELSE "safe",
      icon |-> result.icon,
      title |-> IF lang = "ar" THEN result.classification_ar
                ELSE <<"", result.classification>>,
      subtitle |-> result.classification,
      riskScore |-> result.riskScore,
      explanation |-> result.explanation,
      warnings |-> result.warnings ]

\* Math.round of a number kept in tenths
RoundTenths(x) == (x + 5) \div 10

\* displayEnhancedResult (js/ui.js:455-720): the classification and the score it
\* shows and hands to addToHistory
Shown(result) ==
    [ classification |-> IF result.classification = "" THEN "SAFE"
                         ELSE result.classification,
      classification_ar |-> result.classification_ar,
      riskScore |-> RoundTenths(IF result.risk_score # 0 THEN result.risk_score
                                ELSE result.combined_risk_score) ]

\* ... and what it writes into #resultCard
displayEnhancedResult(result, lang) ==
    LET shown == Shown(result)
    IN  [ colorClass |-> CASE shown.classification = "LOW_RISK" -> "low-risk"
                           [] shown.classification = "SUSPICIOUS" -> "suspicious"
                           [] shown.classification = "HIGH_RISK" -> "high-risk"
                           [] OTHER -> "safe",
          title |-> IF lang = "ar" THEN result.classification_ar
                    ELSE <<"", shown.classification>>,
          riskScore |-> shown.riskScore,
          explanation |-> result.explanation,
          red_flags |-> result.red_flags ]

\* the bodies the classifier of script.js may answer with
PageMlData ==
    { MlNull,
      MlObject(<<>>),
      MlObject(<<[url |-> PredictionUrl, probability |-> 300]>>),
      MlObject(<<[url |-> PredictionUrl, probability |-> 750]>>) }

\* the bodies the API of the modular build may answer with: a complete
\* analysis, and an object without the fields
PageApiData ==
    { [ classification |-> "HIGH_RISK", classification_ar |-> <<"ar", "HIGH_RISK">>,
        explanation |-> [lang |-> "ar", tier |-> "HIGH_RISK", score |-> 92],
        risk_score |-> 925, combined_risk_score |-> 925,
        red_flags |-> <<"Contains shortened URLs">>, urls_found |-> 1,
        status |-> "success" ],
      [ classification |-> "", classification_ar |-> <<"ar", "">>,
        explanation |-> [lang |-> "", tier |-> "", score |-> 0],
        risk_score |-> 0, combined_risk_score |-> 0,
        red_flags |-> <<>>, urls_found |-> 0,
        status |-> "" ] }

Builds == {"script.js", "js/"}

PageInit ==
    /\ currentLanguage \in Languages
    /\ build \in Builds
    /\ textarea = [value |-> <<>>, dir |-> "auto"]
    /\ calls = [c \in 1..MaxAnalyses |-> IdleCall]
    /\ loading = FALSE
    /\ resultCard = [show |-> FALSE, content |-> <<>>]
    /\ analysisHistory = <<>>
    /\ localStorage = EmptyStorage
    /\ notification = <<>>
    /\ console = <<>>
    /\ started = 0
    /\ EngIdle
    /\ BlendIdle

\* the user changes the text of #messageInput; the input listener
\* (script.js:809-827) sets its direction
EditMessage(text) ==
    /\ text # textarea.value
    /\ textarea' = [value |-> text, dir |-> TextDirections[text]]
    /\ UNCHANGED <<currentLanguage, build, calls, loading, resultCard, analysisHistory, localStorage,
                   notification, console, started, engVars, blendVars>>

\* analyzeMessage without the check of validateMessageLength
AnalyzeMessageWithoutLengthCheck ==
    /\ LET text == trim(textarea.value)
       IN  IF text = <<>>
           THEN /\ notification' = <<t("notifNoMessage", currentLanguage)>>
                /\ UNCHANGED <<calls, loading, resultCard, started>>
           ELSE /\ started < Len(calls)
                /\ started' = started + 1
                /\ loading' = TRUE
                /\ resultCard' = [resultCard EXCEPT !.show = FALSE]
                /\ calls' = [calls EXCEPT ![started + 1] =
                                 [pc |-> "delay", text |-> text, timer |-> FALSE]]
                /\ UNCHANGED notification
    /\ UNCHANGED <<currentLanguage, build, textarea, analysisHistory, localStorage, console,
                   engVars, blendVars>>

\* analyzeMessage up to its first await (script.js:1132-1157): the checks, the
\* loading indicator, and the 800 ms timer
AnalyzeMessage ==
    /\ LET text == trim(textarea.value)
       IN  IF text = <<>>
           THEN /\ notification' = <<t("notifNoMessage", currentLanguage)>>
                /\ UNCHANGED <<calls, loading, resultCard, started>>
           ELSE IF ~validateMessageLength(text)
           THEN /\ notification' = <<t("notifMessageTooLong", currentLanguage)>>
                /\ UNCHANGED <<calls, loading, resultCard, started>>
           ELSE /\ started < Len(calls)
                /\ started' = started + 1
                /\ loading' = TRUE
                /\ resultCard' = [resultCard EXCEPT !.show = FALSE]
                /\ calls' = [calls EXCEPT ![started + 1] =
                                 [pc |-> "delay", text |-> text, timer |-> FALSE]]
                /\ UNCHANGED notification
    /\ UNCHANGED <<currentLanguage, build, textarea, analysisHistory, localStorage, console,
                   engVars, blendVars>>

\* the 800 ms timer fires: the AbortController, the timeout timer and the
\* fetch (script.js:1159-1170, js/api.js:26-46)
DelayElapsed(c) ==
    /\ calls[c].pc = "delay"
    /\ calls' = [calls EXCEPT ![c].pc = "fetch", ![c].timer = TRUE]
    /\ UNCHANGED <<currentLanguage, build, textarea, loading, resultCard,
                   analysisHistory, localStorage, notification, console, started, engVars, blendVars>>

\* the result is displayed and put into the history (displayResult,
\* script.js:1191-1243; displayEnhancedResult, js/ui.js:455-720)
Display(result) ==
    IF build = "script.js"
    THEN /\ resultCard' = [show |-> TRUE,
                           content |-> <<displayResult(result, currentLanguage)>>]
         /\ analysisHistory' =
                addToHistory(analysisHistory, textarea.value, result, currentLanguage)
         /\ localStorage' = setItem(localStorage, analysisHistory')
    ELSE /\ resultCard' = [show |-> TRUE,
                           content |-> <<displayEnhancedResult(result, currentLanguage)>>]
         /\ analysisHistory' =
                addToHistory(analysisHistory, textarea.value, Shown(result),
                             currentLanguage)
         /\ localStorage' = setItem(localStorage, analysisHistory')

\* the texts that get past the checks of analyzeMessage
SubmittedTexts ==
    { text \in { trim(x) : x \in PageTexts } : text # <<>> /\ validateMessageLength(text) }

\* the local analysis of every text the page can submit, computed once
LocalResults ==
    [ b \in Builds |-> [ l \in Languages |-> [ text \in SubmittedTexts |->
        IF b = "script.js" THEN performEnhancedAnalysis(text, l)
        ELSE performLocalAnalysis(text, l) ] ] ]

\* the local analysis of the build: performEnhancedAnalysis(text) in script.js,
\* performLocalAnalysis(text) in the modular build
LocalResult(text) == LocalResults[build][currentLanguage][text]

\* the catch block without its analysis: the error is logged, nothing is shown
CatchWithoutResult(c, error) ==
    /\ console' = <<error>>
    /\ loading' = FALSE
    /\ calls' = [calls EXCEPT ![c] = DoneCall]
    /\ UNCHANGED <<currentLanguage, build, textarea, resultCard, analysisHistory, localStorage,
                   notification, started, engVars, blendVars>>

\* the catch and finally blocks (script.js:1182-1188, js/script.js:156-171),
\* result being what the local analysis returned
CatchWith(c, error, result) ==
    /\ console' = <<error>>
    /\ loading' = FALSE
    /\ calls' = [calls EXCEPT ![c] = DoneCall]
    /\ notification' = IF build = "script.js" THEN notification
                       ELSE <<t("Using local analysis", currentLanguage)>>
    /\ UNCHANGED <<currentLanguage, build, textarea, started, engVars, blendVars>>
    /\ Display(result)

Catch(c, error) == CatchWith(c, error, LocalResult(calls[c].text))

\* fetch rejects: the network failed
FetchRejected(c) ==
    /\ calls[c].pc = "fetch"
    /\ Catch(c, "TypeError")

\* the timeout timer fires (10 s, 20 s in the modular build): controller.abort()
\* rejects the pending fetch
TimeoutAbort(c) ==
    /\ calls[c].pc = "fetch"
    /\ calls[c].timer
    /\ Catch(c, "AbortError")

\* fetch resolves with the response headers: clearTimeout, then the check of
\* response.ok (script.js:1172-1176, js/api.js:48-52)
FetchResolved(c, ok) ==
    /\ calls[c].pc = "fetch"
    /\ IF ok
       THEN /\ calls' = [calls EXCEPT ![c].pc = "body", ![c].timer = FALSE]
            /\ UNCHANGED <<currentLanguage, build, textarea, loading, resultCard,
                           analysisHistory, localStorage, notification, console, started,
                           engVars, blendVars>>
       ELSE Catch(c, "HTTP error")

\* response.json() resolves with the parsed body (script.js:1178-1180,
\* js/api.js:54-55, js/script.js:154-155), then the finally block
BodyParsed(c, data) ==
    /\ calls[c].pc = "body"
    /\ data \in (IF build = "script.js" THEN PageMlData ELSE PageApiData)
    /\ loading' = FALSE
    /\ calls' = [calls EXCEPT ![c] = DoneCall]
    /\ UNCHANGED <<currentLanguage, build, textarea, notification, console, started,
                   engVars, blendVars>>
    /\ Display(IF build = "script.js"
               THEN combineMLWithEnhancedAnalysis(calls[c].text, data, currentLanguage)
               ELSE processEnhancedAPIResponse(data))

\* response.json() rejects: the body cannot be parsed
BodyRejected(c) ==
    /\ calls[c].pc = "body"
    /\ Catch(c, "SyntaxError")

Next ==
    \/ \E text \in PageTexts : EditMessage(text)
    \/ AnalyzeMessage
    \/ \E c \in 1..MaxAnalyses : DelayElapsed(c)
    \/ \E c \in 1..MaxAnalyses : FetchRejected(c)
    \/ \E c \in 1..MaxAnalyses : TimeoutAbort(c)
    \/ \E c \in 1..MaxAnalyses, ok \in BOOLEAN : FetchResolved(c, ok)
    \/ \E c \in 1..MaxAnalyses, data \in PageMlData \cup PageApiData : BodyParsed(c, data)
    \/ \E c \in 1..MaxAnalyses : BodyRejected(c)

Spec == PageInit /\ [][Next]_vars

\* TimeoutAbort(c) with the local analysis looked up in LocalResults: the same
\* steps, written so that their enabledness is cheap to evaluate
TimeoutFires(c) ==
    /\ calls[c].pc = "fetch"
    /\ calls[c].timer
    /\ CatchWith(c, "AbortError", LocalResults[build][currentLanguage][calls[c].text])

\* Timers fire: the 800 ms delay and, while it is armed, the timeout.  Nothing
\* makes the remote service answer.
FairSpec ==
    /\ Spec
    /\ \A c \in 1..MaxAnalyses : WF_vars(DelayElapsed(c)) /\ WF_vars(TimeoutFires(c))

\* TimeoutFires and TimeoutAbort are the same steps
TimeoutFiresIsTimeoutAbort ==
    [][\A c \in 1..MaxAnalyses : TimeoutAbort(c) <=> TimeoutFires(c)]_vars


-----------------------------------------------------------------------------
(* Overlapping invocations of analyzeMessage in script.js: the button and   *)
(* Ctrl+Enter (script.js:1121-1130) start it again while an earlier         *)
(* invocation waits for its timer or for the classifier                     *)

\* the number of invocations that may overlap
MaxOverlap == 2

\* " hello " and "Absher bit.ly/x"
RaceTexts == { text \in PageTexts : trim(text) \in SubmittedTexts }

RaceInit ==
    /\ currentLanguage \in Languages
    /\ build = "script.js"
    /\ textarea = [value |-> <<>>, dir |-> "auto"]
    /\ calls = [c \in 1..MaxOverlap |-> IdleCall]
    /\ loading = FALSE
    /\ resultCard = [show |-> FALSE, content |-> <<>>]
    /\ analysisHistory = <<>>
    /\ localStorage = EmptyStorage
    /\ notification = <<>>
    /\ console = <<>>
    /\ started = 0
    /\ EngIdle
    /\ BlendIdle

\* the user types the text of the next submission
RaceEdit(text) ==
    /\ started < MaxOverlap
    /\ EditMessage(text)

RaceNext ==
    \/ \E text \in RaceTexts : RaceEdit(text)
    \/ AnalyzeMessage
    \/ \E c \in 1..MaxOverlap : DelayElapsed(c)
    \/ \E c \in 1..MaxOverlap : FetchRejected(c)
    \/ \E c \in 1..MaxOverlap : TimeoutAbort(c)
    \/ \E c \in 1..MaxOverlap, ok \in BOOLEAN : FetchResolved(c, ok)
    \/ \E c \in 1..MaxOverlap, data \in PageMlData : BodyParsed(c, data)
    \/ \E c \in 1..MaxOverlap : BodyRejected(c)

SpecRace == RaceInit /\ [][RaceNext]_vars

-----------------------------------------------------------------------------
(* processAPIResponse (api.js:57-116)                                       *)
(*                                                                          *)
(* data is the parsed body of the server's response.  A numeric field is    *)
(* <<>> when the body does not have it and <<x>> when it has the value x,   *)
(* kept in tenths; llm_analysis is <<>> or a one-element list.              *)

\* a || b || 0 on two numeric fields: the first one that is there and not 0
FirstTruthy(a, b) ==
    IF a # <<>> /\ a[1] # 0 THEN a[1]
    ELSE IF b # <<>> /\ b[1] # 0 THEN b[1]
    ELSE 0

\* the tier of a rounded score (api.js:62-74)
ApiTier(riskScore) ==
    IF riskScore <= 25 THEN "SAFE"
    ELSE IF riskScore <= 65 THEN "SUSPICIOUS"
    ELSE "FRAUD"

\* the warnings for the predictions with probability >= 0.75 (api.js:78-89)
RECURSIVE ApiUrlWarnings(_, _, _)
ApiUrlWarnings(preds, i, lang) ==
    IF i > Len(preds) THEN <<>>
    ELSE (IF preds[i].probability >= 750
          THEN <<WarningUrl("ML_HIGH_RISK", lang, preds[i].url, RoundPercent(preds[i].probability))>>
          ELSE <<>>) \o ApiUrlWarnings(preds, i + 1, lang)

\* the warnings for the first three red flags of llm_analysis (api.js:92-101)
ApiLlmWarnings(llm, lang) ==
    IF llm = <<>> THEN <<>>
    ELSE [i \in 1..Min(3, Len(llm[1].red_flags)) |->
             WarningUrl("LLM_RED_FLAG", lang, llm[1].red_flags[i], 0)]

\* the result object, given its score and its warnings
ApiResult(data, riskScore, warnings, lang) ==
    [ classification |-> ApiTier(riskScore),
      classification_ar |-> t(ClassificationKey(ApiTier(riskScore)), lang),
      riskScore |-> riskScore,
      icon |-> Icon(ApiTier(riskScore)),
      explanation |-> t(Len(warnings), lang),
      warnings |-> warnings,
      urlsFound |-> data.urls_found,
      mlScore |-> RoundTenths(FirstTruthy(data.ml_risk_score, <<>>)),
      llmScore |-> IF data.llm_analysis = <<>> THEN <<>>
                   ELSE <<RoundTenths(data.llm_analysis[1].context_score)>> ]

processAPIResponse(data, lang) ==
    ApiResult(data,
        RoundTenths(FirstTruthy(data.combined_risk_score, data.ml_risk_score)),
        ApiUrlWarnings(data.url_predictions, 1, lang) \o ApiLlmWarnings(data.llm_analysis, lang),
        lang)

\* the scores a response may carry, in tenths: none, 0, 0.4, 25, 25.4, 25.5,
\* 65, 65.5, 80 and 100
ApiScores == {<<>>, <<0>>, <<4>>, <<250>>, <<254>>, <<255>>, <<650>>, <<655>>, <<800>>, <<1000>>}

ApiLlmAnalyses ==
    { <<>>,
      <<[context_score |-> 705, red_flags |-> <<"urgency", "link", "threat", "reward">>]>> }

ApiResponses ==
    [ combined_risk_score : ApiScores,
      ml_risk_score : ApiScores,
      url_predictions : {<<>>, <<[url |-> PredictionUrl, probability |-> 750]>>},
      llm_analysis : ApiLlmAnalyses,
      urls_found : {1} ]

ApiInit ==
    /\ currentLanguage = "ar"
    /\ BlendIdle
    /\ EngIdle
    /\ PageIdle

\* a call of processAPIResponse(data)
ApiProcess ==
    /\ blendOut = <<>>
    /\ \E data \in ApiResponses :
           blendOut' = << [ fn |-> "processAPIResponse", lang |-> currentLanguage,
                            data |-> data,
                            res |-> processAPIResponse(data, currentLanguage) ] >>
    /\ UNCHANGED <<currentLanguage, blendText, engVars, pageVars>>

ApiNext ==
    \/ ApiProcess
    \/ BlendReturn
    \/ ToggleLanguage

SpecApi == ApiInit /\ [][ApiNext]_vars

-----------------------------------------------------------------------------
(* Reporting a message: openReportModal and sendDirectReport                *)
(* (script.js:1318-1444), sendReport and sendReportToAPI                    *)
(* (js/script.js:586-625, js/api.js:349-379)                                *)
(*                                                                          *)
(* calls holds the one invocation of the report function: its position, the *)
(* message it sends, whether its 5 s abort timer is armed, how the POST     *)
(* ended, and whether alert() was called.                                   *)

IdleReport ==
    [pc |-> "idle", text |-> <<>>, timer |-> FALSE, outcome |-> "none", alerted |-> FALSE]

\* "", " hello " and "Absher bit.ly/x"
ReportTexts == { text \in PageTexts : validateMessageLength(text) }

ReportInit ==
    /\ currentLanguage \in Languages
    /\ build \in Builds
    /\ textarea = [value |-> <<>>, dir |-> "auto"]
    /\ calls = <<IdleReport>>
    /\ loading = FALSE
    /\ resultCard = [show |-> FALSE, content |-> <<>>]
    /\ analysisHistory = <<>>
    /\ localStorage = EmptyStorage
    /\ notification = <<>>
    /\ console = <<>>
    /\ started = 0
    /\ EngIdle
    /\ BlendIdle

\* the payload's message: sanitizeHTML(message.substring(0, 1000))
ReportPayload(message) == sanitizeHTML(substring(message, 1000))

\* openReportModal (script.js:1318-1328, js/script.js:586-594): script.js
\* hands the trimmed text to the confirmation dialog
OpenReportModal ==
    /\ calls[1].pc \in {"idle", "done"}
    /\ IF trim(textarea.value) = <<>>
       THEN /\ notification' = <<t("notifNoMessage", currentLanguage)>>
            /\ UNCHANGED calls
       ELSE /\ calls' = [calls EXCEPT ![1].pc = "confirm",
                                      ![1].text = IF build = "script.js"
                                                  THEN trim(textarea.value) ELSE <<>>]
            /\ UNCHANGED notification
    /\ UNCHANGED <<currentLanguage, build, textarea, loading, resultCard,
                   analysisHistory, localStorage, console, started, engVars, blendVars>>

\* the cancel button of the dialog
CancelReport ==
    /\ calls[1].pc = "confirm"
    /\ calls' = [calls EXCEPT ![1].pc = "idle", ![1].text = <<>>]
    /\ UNCHANGED <<currentLanguage, build, textarea, loading, resultCard,
                   analysisHistory, localStorage, notification, console, started, engVars, blendVars>>

\* the confirm button: sendDirectReport(message) up to its await of fetch
\* (script.js:1411-1431); sendReport() up to the await in sendReportToAPI
\* (js/script.js:602-614, js/api.js:349-371), which reads the textarea again
SendReport ==
    /\ calls[1].pc = "confirm"
    /\ LET message == IF build = "script.js" THEN calls[1].text
                      ELSE trim(textarea.value)
       IN  IF message = <<>>
           THEN /\ notification' = <<t("notifNoMessage", currentLanguage)>>
                /\ calls' = [calls EXCEPT ![1].pc = "idle"]
           ELSE /\ notification' = <<t("reportSending", currentLanguage)>>
                /\ calls' = [calls EXCEPT ![1] =
                                [pc |-> "fetch", text |-> ReportPayload(message),
                                 timer |-> TRUE, outcome |-> "pending",
                                 alerted |-> FALSE]]
    /\ UNCHANGED <<currentLanguage, build, textarea, loading, resultCard,
                   analysisHistory, localStorage, console, started, engVars, blendVars>>

\* the POST has ended with outcome.  script.js (1424-1436): .catch(() => {})
\* swallows a rejection, the response is not looked at, clearTimeout, then
\* the 800 ms timer.  Modular build (js/api.js:372-378, js/script.js:615-624):
\* response.ok or, after console.error, false decides the notification.
ReportEnded(outcome) ==
    IF build = "script.js"
    THEN /\ calls' = [calls EXCEPT ![1].pc = "wait", ![1].timer = FALSE,
                                   ![1].outcome = outcome]
         /\ UNCHANGED <<notification, console>>
    ELSE /\ calls' = [calls EXCEPT ![1].pc = "done", ![1].timer = FALSE,
                                   ![1].outcome = outcome]
         /\ console' = IF outcome \in {"ok", "http-error"} THEN console
                       ELSE <<"Report error">>
         /\ notification' = IF outcome = "ok"
                            THEN <<t("reportSent", currentLanguage)>>
                            ELSE <<t("reportFailed", currentLanguage)>>

\* fetch resolves with a response whose status is 2xx (ok) or not
ReportResolved(ok) ==
    /\ calls[1].pc = "fetch"
    /\ ReportEnded(IF ok THEN "ok" ELSE "http-error")
    /\ UNCHANGED <<currentLanguage, build, textarea, loading, resultCard,
                   analysisHistory, localStorage, started, engVars, blendVars>>

\* fetch rejects: the network failed
ReportRejected ==
    /\ calls[1].pc = "fetch"
    /\ ReportEnded("failed")
    /\ UNCHANGED <<currentLanguage, build, textarea, loading, resultCard,
                   analysisHistory, localStorage, started, engVars, blendVars>>

\* the 5 s timer fires: controller.abort() rejects the pending fetch
ReportTimeout ==
    /\ calls[1].pc = "fetch"
    /\ calls[1].timer
    /\ ReportEnded("timeout")
    /\ UNCHANGED <<currentLanguage, build, textarea, loading, resultCard,
                   analysisHistory, localStorage, started, engVars, blendVars>>

\* script.js:1438-1440: the 800 ms timer fires, the notification is shown and
\* the 400 ms timer of the alert is set
ReportWaitElapsed ==
    /\ calls[1].pc = "wait"
    /\ notification' = <<t("reportSent", currentLanguage)>>
    /\ calls' = [calls EXCEPT ![1].pc = "alert"]
    /\ UNCHANGED <<currentLanguage, build, textarea, loading, resultCard,
                   analysisHistory, localStorage, console, started, engVars, blendVars>>

\* script.js:1441-1443: alert(t('reportSent'))
ReportAlert ==
    /\ calls[1].pc = "alert"
    /\ calls' = [calls EXCEPT ![1].pc = "done", ![1].alerted = TRUE]
    /\ UNCHANGED <<currentLanguage, build, textarea, loading, resultCard,
                   analysisHistory, localStorage, notification, console, started, engVars, blendVars>>

ReportNext ==
    \/ \E text \in ReportTexts : EditMessage(text)
    \/ OpenReportModal
    \/ CancelReport
    \/ SendReport
    \/ \E ok \in BOOLEAN : ReportResolved(ok)
    \/ ReportRejected
    \/ ReportTimeout
    \/ ReportWaitElapsed
    \/ ReportAlert

SpecReport == ReportInit /\ [][ReportNext]_vars

-----------------------------------------------------------------------------
(* The history: initializeApp (script.js:788-799, js/script.js:51-53),      *)
(* addToHistory, deleteHistoryItem (script.js:996-1007) and clearHistory    *)
(* (script.js:1009-1020)                                                    *)

\* the number of operations on the history after the page is opened
MaxHistoryOps == 3

\* the record of an earlier analysis, told apart by its score
OldRecord(i) ==
    [ message |-> <<"m">>, classification |-> "SAFE",
      classification_ar |-> <<"ar", "safe">>, riskScore |-> i, timestamp |-> "ar-SA" ]

\* n earlier records, the newest first
OldHistory(n) == [i \in 1..n |-> OldRecord(i)]

\* what the item HISTORY_KEY may hold when the page is opened: nothing, text
\* that is not JSON, JSON that is not an array, and the array saved earlier
\* with 19, 20 or (by a page with a larger limit) 21 records
SavedItems ==
    { <<>>, <<[kind |-> "invalid", items |-> <<>>]>>, <<[kind |-> "object", items |-> <<>>]>> }
        \cup { <<JsonArray(OldHistory(n))>> : n \in (MAX_HISTORY - 1)..(MAX_HISTORY + 1) }

\* parsed.slice(0, MAX_HISTORY)
slice(s, n) == SubSeq(s, 1, Min(n, Len(s)))

\* analysisHistory.splice(idx, 1), idx counted from 0
splice(s, idx) ==
    IF idx + 1 \in 1..Len(s) THEN SubSeq(s, 1, idx) \o SubSeq(s, idx + 2, Len(s)) ELSE s

HistoryInit ==
    /\ currentLanguage \in Languages
    /\ build = "script.js"
    /\ textarea = [value |-> <<>>, dir |-> "auto"]
    /\ calls = <<IdleCall>>
    /\ loading = FALSE
    /\ resultCard = [show |-> FALSE, content |-> <<>>]
    /\ analysisHistory = <<>>
    /\ localStorage \in [item : SavedItems, full : {FALSE}]
    /\ notification = <<>>
    /\ console = <<>>
    /\ started = 0
    /\ EngIdle
    /\ BlendIdle

\* the page is opened or reloaded: analysisHistory starts empty (script.js:10)
\* and initializeApp loads the saved array
InitializeApp ==
    /\ started < MaxHistoryOps
    /\ started' = started + 1
    /\ analysisHistory' =
           IF localStorage.item # <<>> /\ localStorage.item[1].kind = "array"
           THEN slice(localStorage.item[1].items, MAX_HISTORY)
           ELSE <<>>
    /\ console' = IF localStorage.item # <<>> /\ localStorage.item[1].kind = "invalid"
                  THEN <<"Error loading history">> ELSE <<>>
    /\ notification' = <<>>
    /\ UNCHANGED <<currentLanguage, build, textarea, calls, loading, resultCard,
                   localStorage, engVars, blendVars>>

\* addToHistory(message, result), result being the analysis of the message
RecordAnalysis(message) ==
    /\ started < MaxHistoryOps
    /\ started' = started + 1
    /\ analysisHistory' =
           addToHistory(analysisHistory, message,
                        LocalResults[build][currentLanguage][trim(message)],
                        currentLanguage)
    /\ localStorage' = setItem(localStorage, analysisHistory')
    /\ console' = IF localStorage.full THEN <<"Error saving history">> ELSE console
    /\ UNCHANGED <<currentLanguage, build, textarea, calls, loading, resultCard,
                   notification, engVars, blendVars>>

\* the positions of the list whose delete button is clicked: the first, the
\* middle and the last record
DeleteIndexes == {0, Len(analysisHistory) \div 2, Len(analysisHistory) - 1}

\* deleteHistoryItem(idx), the confirm dialog accepted
DeleteHistoryItem(idx) ==
    /\ idx \in DeleteIndexes
    /\ started < MaxHistoryOps
    /\ analysisHistory # <<>>
    /\ started' = started + 1
    /\ analysisHistory' = splice(analysisHistory, idx)
    /\ localStorage' = setItem(localStorage, analysisHistory')
    /\ console' = IF localStorage.full THEN <<"Error saving history">> ELSE console
    /\ notification' = <<t("notifDeleted", currentLanguage)>>
    /\ UNCHANGED <<currentLanguage, build, textarea, calls, loading, resultCard,
                   engVars, blendVars>>

\* clearHistory(), the confirm dialog accepted: removeItem
ClearHistory ==
    /\ started < MaxHistoryOps
    /\ started' = started + 1
    /\ analysisHistory' = <<>>
    /\ localStorage' = [localStorage EXCEPT !.item = <<>>]
    /\ notification' = <<t("notifAllDeleted", currentLanguage)>>
    /\ UNCHANGED <<currentLanguage, build, textarea, calls, loading, resultCard,
                   console, engVars, blendVars>>

\* the quota of localStorage gets used up, or space is freed
QuotaChanges ==
    /\ localStorage' = [localStorage EXCEPT !.full = ~@]
    /\ UNCHANGED <<currentLanguage, build, textarea, calls, loading, resultCard,
                   analysisHistory, notification, console, started, engVars, blendVars>>

HistoryNext ==
    \/ InitializeApp
    \/ \E message \in RaceTexts : RecordAnalysis(message)
    \/ \E idx \in 0..(MAX_HISTORY - 1) : DeleteHistoryItem(idx)
    \/ ClearHistory
    \/ QuotaChanges

SpecHistory == HistoryInit /\ [][HistoryNext]_vars
-----------------------------------------------------------------------------
(* Properties of the engine                                                 *)

\* the ids of the warnings of a result
WarningIds(res) == { res.warnings[i].id : i \in 1..Len(res.warnings) }

\* C1: the riskScore of every result returned by performEnhancedAnalysis and
\* by combineMLWithEnhancedAnalysis is an integer between 0 and 100, whatever
\* the message and whatever the predictions of the response.
C1_RiskScoreInRange ==
    blendOut # <<>> =>
        /\ blendOut[1].res.riskScore \in 0..100
        /\ blendOut[1].rule.riskScore \in 0..100

\* combineMLWithEnhancedAnalysis has returned 100 for a message whose rule
\* based score and boost add up to more than 100
C1_Witness ==
    /\ blendOut # <<>>
    /\ blendOut[1].fn = "combineMLWithEnhancedAnalysis"
    /\ blendOut[1].rule.riskScore + MlBoost(blendOut[1].mlData.url_predictions, 1) > 100
    /\ blendOut[1].res.riskScore = 100

\* C2: in every returned result the classification is the tier of that
\* result's own riskScore: SAFE iff riskScore <= 25, SUSPICIOUS iff
\* 25 < riskScore <= 65, FRAUD iff riskScore > 65, also after the ML boost.
C2_TierMatchesScore ==
    blendOut # <<>> =>
        LET r == blendOut[1].res
        IN  /\ r.classification \in {"SAFE", "SUSPICIOUS", "FRAUD"}
            /\ (r.classification = "SAFE") <=> (r.riskScore <= 25)
            /\ (r.classification = "SUSPICIOUS") <=> (25 < r.riskScore /\ r.riskScore <= 65)
            /\ (r.classification = "FRAUD") <=> (r.riskScore > 65)

\* combineMLWithEnhancedAnalysis has returned a tier above the tier of the
\* rule based result: the boost moved the score across a threshold
C2_Witness ==
    /\ blendOut # <<>>
    /\ blendOut[1].fn = "combineMLWithEnhancedAnalysis"
    /\ blendOut[1].rule.classification = "SAFE"
    /\ blendOut[1].res.classification = "FRAUD"

\* the message has no lexical match: no urgency or keyword phrase, no
\* sensitive-data term, no mixed-script anomaly, no misspelled official name
NoLexicalMatch(text) ==
    /\ PhishingIndicators(toLowerCase(text)) = 0
    /\ UrgencyMatches(toLowerCase(text)) = 0
    /\ ~PersonalInfo(toLowerCase(text))
    /\ ~MixedLanguage(text)
    /\ MisspelledFound(text) = <<>>

\* C3: for a message without URL and without lexical match, the empty string
\* among them, performEnhancedAnalysis returns riskScore 0, SAFE, no warnings
\* and urlsFound 0.
C3_CleanMessageScoresZero ==
    (engLast # <<>> /\ extractURLs(engText) = <<>> /\ NoLexicalMatch(engText)) =>
        /\ engLast[1].res.riskScore = 0
        /\ engLast[1].res.classification = "SAFE"
        /\ engLast[1].res.warnings = <<>>
        /\ engLast[1].res.urlsFound = 0

\* performEnhancedAnalysis has returned for the empty string
C3_Witness ==
    /\ engLast # <<>>
    /\ engText = <<>>
    /\ engLast[1].res.riskScore = 0

\* C6: two calls of performEnhancedAnalysis on the same text return the same
\* score, tier, flag list and URL count, whatever ran between them
\* (toggleLanguage included).
C6_SameTextSameResult ==
    (engFirst # <<>> /\ engLast # <<>>) =>
        /\ engLast[1].res.riskScore = engFirst[1].res.riskScore
        /\ engLast[1].res.classification = engFirst[1].res.classification
        /\ engLast[1].res.warnings = engFirst[1].res.warnings
        /\ engLast[1].res.urlsFound = engFirst[1].res.urlsFound

\* C7: combineMLWithEnhancedAnalysis(text, mlData) returns what
\* performEnhancedAnalysis(text) returns when mlData is undefined or null, has
\* no url_predictions field, or has an empty url_predictions list.
C7_BlendIdentityWithoutScore ==
    ( /\ blendOut # <<>>
      /\ blendOut[1].fn = "combineMLWithEnhancedAnalysis"
      /\ \/ blendOut[1].mlData.kind \in {"undefined", "null"}
         \/ ~blendOut[1].mlData.hasPredictions
         \/ blendOut[1].mlData.url_predictions = <<>> )
    => blendOut[1].res = blendOut[1].rule

\* combineMLWithEnhancedAnalysis has returned for a response with an empty
\* url_predictions list and a message that has warnings
C7_Witness ==
    /\ blendOut # <<>>
    /\ blendOut[1].fn = "combineMLWithEnhancedAnalysis"
    /\ blendOut[1].mlData = MlObject(<<>>)
    /\ blendOut[1].rule.warnings # <<>>

\* C8: a message whose only URL is an entry of OFFICIAL_DOMAINS, bare or with
\* http(s)://, with or without a path, gets the official domain bonus and is
\* SAFE (riskScore <= 25).
C8_OfficialOnlyIsSafe ==
    (engLast # <<>> /\ engText \in OfficialMessages) =>
        /\ "OFFICIAL_DOMAIN" \in WarningIds(engLast[1].res)
        /\ engLast[1].res.riskScore <= 25
        /\ engLast[1].res.classification = "SAFE"

\* the result has no penalty: no warning but the official domain one
NoPenalty(res) == WarningIds(res) \subseteq {"OFFICIAL_DOMAIN"}

\* C9: adding a whitespace-separated shortener URL to a message never lowers
\* the riskScore, and strictly raises it when the message had no penalty.
C9_ShortenerNeverLowers ==
    engBase # <<>> =>
        /\ engLast[1].res.riskScore >= engBase[1].res.riskScore
        /\ NoPenalty(engBase[1].res) =>
               engLast[1].res.riskScore > engBase[1].res.riskScore

\* C10: for the suspended-account message performEnhancedAnalysis returns at
\* least 3 flags, among them the shortener, urgency, government impersonation
\* and unofficial source flags, a riskScore above 65 and FRAUD.
C10_SuspendedAccountIsFraud ==
    (engLast # <<>> /\ engText = ScenarioSuspended) =>
        /\ Len(engLast[1].res.warnings) >= 3
        /\ {"URL_SHORTENER", "URGENCY_TACTICS", "FAKE_GOVERNMENT", "UNOFFICIAL_SOURCE"}
               \subseteq WarningIds(engLast[1].res)
        /\ engLast[1].res.riskScore > 65
        /\ engLast[1].res.classification = "FRAUD"

\* performEnhancedAnalysis has returned for the suspended-account message
C10_Witness ==
    /\ engLast # <<>>
    /\ engText = ScenarioSuspended
    /\ engLast[1].res.urlsFound = 1

-----------------------------------------------------------------------------
(* Properties of the page                                                   *)

\* the steps of invocation c in which the call to the remote classifier
\* fails: a network error, the abort by the timeout, a status that is not
\* 2xx, a body that cannot be parsed
RemoteFailure(c) ==
    \/ FetchRejected(c)
    \/ TimeoutAbort(c)
    \/ FetchResolved(c, FALSE)
    \/ BodyRejected(c)

\* what the page shows for the local analysis of the text
LocalCard(text) ==
    IF build = "script.js"
    THEN displayResult(performEnhancedAnalysis(text, currentLanguage), currentLanguage)
    ELSE displayEnhancedResult(performLocalAnalysis(text, currentLanguage), currentLanguage)

\* C4: whenever the call to the remote classifier fails, the result card shows
\* the local rule based result for the submitted text (performEnhancedAnalysis
\* in script.js, performLocalAnalysis in the modular build) and the loading
\* indicator is removed.
C4_FailureShowsLocalResult ==
    [][ \A c \in 1..MaxAnalyses :
            RemoteFailure(c) =>
                /\ resultCard'.show
                /\ resultCard'.content = <<LocalCard(calls[c].text)>>
                /\ Len(analysisHistory') = Min(MAX_HISTORY, Len(analysisHistory) + 1)
                /\ ~loading' ]_vars

\* the timeout has aborted the call; the page shows a result and no loading
\* indicator
C4_Witness ==
    /\ console = <<"AbortError">>
    /\ resultCard.show
    /\ resultCard.content # <<>>
    /\ ~loading

\* C5: every invocation of analyzeMessage that gets past validation eventually
\* shows a result and removes the loading indicator, whatever the remote
\* service does.
C5_EveryAnalysisCompletes ==
    \A c \in 1..MaxAnalyses :
        (calls[c].pc = "delay") ~> (calls[c].pc = "done" /\ resultCard.show /\ ~loading)

-----------------------------------------------------------------------------
(* Properties of the aggregation, the URL extraction and the caller         *)

\* the checks of the URL loop add nothing for this URL, and it is not official
PlainUrl(url) ==
    /\ ~IsOfficialURL(url)
    /\ UrlChecks(url, "en").riskScore = 0

\* C11: for a message made of 5 distinct non-trusted https URLs on which no
\* structural check fires, and with no other signal, performEnhancedAnalysis
\* fires exactly the multiple-URL and the unofficial-source penalties; the
\* riskScore is their sum 28 + 15, above 0, and the tier is not FRAUD.
C11_FiveUrlsAddTwoPenalties ==
    ( /\ engLast # <<>>
      /\ engText \in FiveUrlMessages
      /\ \A i \in 1..Len(extractURLs(engText)) : PlainUrl(extractURLs(engText)[i])
      /\ NoLexicalMatch(engText) ) =>
        /\ WarningIds(engLast[1].res) = {"MULTIPLE_REDIRECTS", "UNOFFICIAL_SOURCE"}
        /\ Len(engLast[1].res.warnings) = 2
        /\ engLast[1].res.riskScore = 28 + 15
        /\ engLast[1].res.riskScore > 0
        /\ engLast[1].res.classification # "FRAUD"
        /\ engLast[1].res.urlsFound = 5

\* performEnhancedAnalysis has returned 43 for "https://a.com https://b.com
\* https://c.com https://d.com https://e.com"
C11_Witness ==
    /\ engLast # <<>>
    /\ engText = JoinWords([i \in 1..5 |-> PlainUrls[i]])
    /\ engLast[1].res.urlsFound = 5
    /\ engLast[1].res.riskScore = 43
    /\ engLast[1].res.classification = "SUSPICIOUS"

\* the bump for one confidence p, in thousandths
TierBump(p) ==
    IF p >= 750 THEN 35 ELSE IF p >= 500 THEN 20 ELSE IF p >= 300 THEN 8 ELSE 0

\* the bumps of the predictions preds, added up
RECURSIVE SumBumps(_)
SumBumps(preds) ==
    IF preds = <<>> THEN 0 ELSE TierBump(Head(preds).probability) + SumBumps(Tail(preds))

\* the high-risk warnings of a result that name the URL url
HighRiskFlags(res, url) ==
    { j \in 1..Len(res.warnings) :
        res.warnings[j].id = "ML_HIGH_RISK" /\ res.warnings[j].url = url }

\* C12: combineMLWithEnhancedAnalysis adds, for each prediction of confidence
\* p, 35 when p >= 0.75, 20 when 0.50 <= p < 0.75, 8 when 0.30 <= p < 0.50 and
\* nothing below 0.30; it adds a high-risk flag naming the URL for each
\* prediction with p >= 0.75; the blended score is min(100, rule based score
\* + bump).
C12_TieredBump ==
    ( /\ blendOut # <<>>
      /\ blendOut[1].fn = "combineMLWithEnhancedAnalysis"
      /\ ~NoExternalScore(blendOut[1].mlData) ) =>
        LET preds == blendOut[1].mlData.url_predictions
            res == blendOut[1].res
        IN  /\ res.riskScore = Min(100, blendOut[1].rule.riskScore + SumBumps(preds))
            /\ \A i \in 1..Len(preds) :
                   Cardinality(HighRiskFlags(res, preds[i].url)) =
                       Cardinality({ k \in 1..Len(preds) :
                                       /\ preds[k].url = preds[i].url
                                       /\ preds[k].probability >= 750 })

\* combineMLWithEnhancedAnalysis has returned for a prediction of exactly 0.75
\* on one URL and one of 0.499 on another: 35 + 8 on top of the rule based
\* score, and one high-risk flag
C12_Witness ==
    /\ blendOut # <<>>
    /\ blendOut[1].fn = "combineMLWithEnhancedAnalysis"
    /\ blendOut[1].mlData.url_predictions =
           << [url |-> OtherPredictionUrl, probability |-> 750],
              [url |-> PredictionUrl, probability |-> 499] >>
    /\ blendOut[1].res.riskScore = blendOut[1].rule.riskScore + 43
    /\ Cardinality(HighRiskFlags(blendOut[1].res, OtherPredictionUrl)) = 1
    /\ HighRiskFlags(blendOut[1].res, PredictionUrl) = {}

\* the part of s before the first character of the set stop
RECURSIVE UpTo(_, _)
UpTo(s, stop) ==
    IF s = <<>> \/ Head(s) \in stop THEN <<>> ELSE <<Head(s)>> \o UpTo(Tail(s), stop)

\* the host of a URL: lower-cased, without the scheme, up to the port, path,
\* query or fragment
Host(url) ==
    LET lower == toLowerCase(url)
        rest == IF StartsWith(lower, HttpsPrefix) THEN SubSeq(lower, 9, Len(lower))
                ELSE IF StartsWith(lower, HttpPrefix) THEN SubSeq(lower, 8, Len(lower))
                ELSE lower
    IN  UpTo(rest, {"/", ":", "?", "#"})

\* the host is an allow-listed domain or a dot-suffix subdomain of one
TrustedHost(host) ==
    \E i \in 1..Len(OFFICIAL_DOMAINS) :
        \/ host = OFFICIAL_DOMAINS[i]
        \/ EndsWith(host, <<".">> \o OFFICIAL_DOMAINS[i])

\* C13: performEnhancedAnalysis gives the trusted-domain treatment (the
\* official domain flag and bonus) only when the host of an extracted URL is
\* an allow-listed domain or a dot-suffix subdomain of one; an allow-listed
\* name in the path, or as leading labels of another host, does not count.
C13_TrustedOnlyByHost ==
    (engLast # <<>> /\ "OFFICIAL_DOMAIN" \in WarningIds(engLast[1].res)) =>
        \E i \in 1..Len(extractURLs(engText)) : TrustedHost(Host(extractURLs(engText)[i]))


\* the number of different strings in the sequence s
Distinct(s) == Cardinality({ s[i] : i \in 1..Len(s) })

\* C14: extractURLs returns no string twice, also when a protocol-prefixed
\* URL is repeated in the message; so urlsFound is the number of different
\* URLs, and the multiple-URL penalty is applied only to a message with more
\* than 2 different URLs.
C14_ExtractedUrlsAreDistinct ==
    engLast # <<>> =>
        /\ \A i, j \in 1..Len(extractURLs(engText)) :
               extractURLs(engText)[i] = extractURLs(engText)[j] => i = j
        /\ engLast[1].res.urlsFound = Distinct(extractURLs(engText))
        /\ "MULTIPLE_REDIRECTS" \in WarningIds(engLast[1].res) => Distinct(extractURLs(engText)) > 2

\* the position in text at which the string url first occurs (0: nowhere)
FirstOccurrence(text, url) ==
    IF Includes(text, url)
    THEN CHOOSE p \in 1..Len(text) :
             /\ StartsWith(SubSeq(text, p, Len(text)), url)
             /\ \A q \in 1..(p - 1) : ~StartsWith(SubSeq(text, q, Len(text)), url)
    ELSE 0

\* C15: extractURLs returns the URLs in the order in which they first occur
\* in the message: a URL placed earlier in the result does not first occur
\* later in the text, also when a bare domain comes before a
\* protocol-prefixed URL.
C15_FirstOccurrenceOrder ==
    engLast # <<>> =>
        \A i, j \in 1..Len(extractURLs(engText)) :
            i < j => FirstOccurrence(engText, extractURLs(engText)[i])
                         <= FirstOccurrence(engText, extractURLs(engText)[j])

\* the text analyzeMessage reads is empty or longer than MAX_MESSAGE_LENGTH
RejectedText == trim(textarea.value) = <<>> \/ Len(trim(textarea.value)) > MAX_MESSAGE_LENGTH

\* C16: when the trimmed text is empty or longer than MAX_MESSAGE_LENGTH
\* (5000 characters), analyzeMessage starts no invocation (so no request is
\* sent and no local analysis runs), leaves the loading indicator, the
\* result card and the history as they are, and shows a notification.
C16_RejectedTextOnlyNotifies ==
    [][(AnalyzeMessage /\ RejectedText) =>
           /\ UNCHANGED <<calls, started, loading, resultCard, analysisHistory, console>>
           /\ notification' \in { <<t("notifNoMessage", currentLanguage)>>,
                                  <<t("notifMessageTooLong", currentLanguage)>> }]_vars

\* the too-long text was submitted and rejected
C16_Witness ==
    /\ Len(trim(textarea.value)) > MAX_MESSAGE_LENGTH
    /\ notification = <<t("notifMessageTooLong", currentLanguage)>>
    /\ started = 0

\* no URL of the sequence passes the engine's test against OFFICIAL_DOMAINS
NoneTrusted(urls) == \A i \in 1..Len(urls) : ~IsOfficialURL(urls[i])

\* the message has URLs and none of them is trusted
UntrustedUrlsOnly(text) == Len(extractURLs(text)) > 0 /\ NoneTrusted(extractURLs(text))

\* the flags ids and the score agree with the two conditions
PenaltiesMatch(ids, flags, riskScore, government, untrusted) ==
    /\ "FAKE_GOVERNMENT" \in ids <=> (government /\ untrusted)
    /\ "UNOFFICIAL_SOURCE" \in ids <=> untrusted
    /\ {"FAKE_GOVERNMENT", "UNOFFICIAL_SOURCE"} \subseteq ids
           => riskScore >= WEIGHTS.FAKE_GOVERNMENT + WEIGHTS.UNOFFICIAL_SOURCE
    /\ (ids = {"FAKE_GOVERNMENT", "UNOFFICIAL_SOURCE"} /\ flags = 2)
           => riskScore = WEIGHTS.FAKE_GOVERNMENT + WEIGHTS.UNOFFICIAL_SOURCE

\* C17: performEnhancedAnalysis adds the impersonation penalty
\* (FAKE_GOVERNMENT, 45) exactly when the message mentions a government
\* service, has at least one URL and none of its URLs is trusted; it adds the
\* unofficial-source penalty (15) exactly when the message has URLs and none
\* is trusted; when both apply the score holds both weights.
C17_ImpersonationAndUnofficialSource ==
    engLast # <<>> =>
        PenaltiesMatch(WarningIds(engLast[1].res), Len(engLast[1].res.warnings),
                       engLast[1].res.riskScore,
                       MentionsGovernment(toLowerCase(engText)), UntrustedUrlsOnly(engText))

\* a message that mentions a government service and has an untrusted URL got
\* both penalties and nothing else
C17_Witness ==
    /\ engLast # <<>>
    /\ MentionsGovernment(toLowerCase(engText))
    /\ UntrustedUrlsOnly(engText)
    /\ WarningIds(engLast[1].res) = {"FAKE_GOVERNMENT", "UNOFFICIAL_SOURCE"}
    /\ engLast[1].res.riskScore = 60

\* C18: one threshold scheme within an implementation: when the ML-combined
\* path returns the score that the rule-only path returns for the message,
\* it returns the tier of the rule-only path too (performRuleBasedAnalysis
\* and combineAnalysis in the older variant, performEnhancedAnalysis and
\* combineMLWithEnhancedAnalysis in script.js).
C18_SameScoreSameTier ==
    (blendOut # <<>> /\ blendOut[1].res.riskScore = blendOut[1].rule.riskScore)
        => blendOut[1].res.classification = blendOut[1].rule.classification

\* C19: the flag list of every result, from performEnhancedAnalysis alone or
\* after the blending of combineMLWithEnhancedAnalysis, holds at most 10
\* entries, and the flags of the rule based result come first in it, in
\* their order.
C19_AtMostTenFlagsInOrder ==
    blendOut # <<>> =>
        /\ Len(blendOut[1].res.warnings) <= 10
        /\ Len(blendOut[1].rule.warnings) <= Len(blendOut[1].res.warnings)
        /\ SubSeq(blendOut[1].res.warnings, 1, Len(blendOut[1].rule.warnings))
               = blendOut[1].rule.warnings

\* the penalties the URL triggers alone: none for a trusted URL
UrlPenalty(url) == IF IsOfficialURL(url) THEN 0 ELSE UrlChecks(url, "en").riskScore

\* their sum over the URLs of the sequence
RECURSIVE SumUrlPenalties(_)
SumUrlPenalties(urls) ==
    IF urls = <<>> THEN 0 ELSE UrlPenalty(Head(urls)) + SumUrlPenalties(Tail(urls))

\* what the checks on the text and on the list of URLs add (script.js:512-649),
\* from what they found
OtherSum(urlsFound, trusted, government, urgencyMatches, phishingIndicators, personal, mixed, misspelled) ==
      OfficialBonus(trusted)
    + (IF government /\ urlsFound > 0 /\ ~trusted THEN WEIGHTS.FAKE_GOVERNMENT ELSE 0)
    + (IF urgencyMatches > 0 THEN Min(urgencyMatches * 12, WEIGHTS.URGENCY_TACTICS) ELSE 0)
    + (IF phishingIndicators >= 3
       THEN Min(phishingIndicators * 8, WEIGHTS.PHISHING_KEYWORDS) ELSE 0)
    + (IF urlsFound > 2 THEN WEIGHTS.MULTIPLE_REDIRECTS ELSE 0)
    + (IF urlsFound > 0 /\ ~trusted THEN WEIGHTS.UNOFFICIAL_SOURCE ELSE 0)
    + (IF personal THEN 25 ELSE 0)
    + (IF mixed THEN 12 ELSE 0)
    + 15 * misspelled

OtherPenalties(text, textLower, urls) ==
    OtherSum(Len(urls), ~NoneTrusted(urls), MentionsGovernment(textLower),
             UrgencyMatches(textLower), PhishingIndicators(textLower),
             PersonalInfo(textLower), MixedLanguage(text), Len(MisspelledFound(text)))

\* the sum of the penalties of the URLs and of the other checks, clamped
SummedScore(text, textLower, urls) ==
    Max(0, Min(100, SumUrlPenalties(urls) + OtherPenalties(text, textLower, urls)))

\* C20: the structural penalties are computed for each URL on its own and
\* summed: the riskScore of performEnhancedAnalysis is the sum, over the
\* extracted URLs that are not trusted, of the penalties each triggers
\* alone, plus the penalties of the checks on the text, clamped to 0..100.
C20_UrlPenaltiesAreSummed ==
    engLast # <<>> =>
        engLast[1].res.riskScore
            = SummedScore(engText, toLowerCase(engText), extractURLs(engText))

\* a message with two different shortener URLs and nothing else: twice the
\* shortener weight and the unofficial-source weight
C20_Witness ==
    /\ engLast # <<>>
    /\ Len(extractURLs(engText)) = 2
    /\ extractURLs(engText)[1] # extractURLs(engText)[2]
    /\ \A i \in 1..2 : UrlPenalty(extractURLs(engText)[i]) = WEIGHTS.URL_SHORTENER
    /\ engLast[1].res.riskScore = 2 * WEIGHTS.URL_SHORTENER + WEIGHTS.UNOFFICIAL_SOURCE

-----------------------------------------------------------------------------
(* Claims C21 to C30                                                        *)

\* nothing but the phishing phrases can add to the score of the message
OnlyPhishingPhrases(text) ==
    /\ extractURLs(text) = <<>>
    /\ UrgencyMatches(toLowerCase(text)) = 0
    /\ ~PersonalInfo(toLowerCase(text))
    /\ ~MixedLanguage(text)
    /\ MisspelledFound(text) = <<>>

\* the penalty for n matched phrases as the claim gives it
ScaledPenalty(riskScore, n) ==
    /\ n < 3 => riskScore = 0
    /\ n >= 3 => riskScore = Min(8 * n, WEIGHTS.PHISHING_KEYWORDS)
    /\ n = 3 => riskScore < WEIGHTS.PHISHING_KEYWORDS

\* C22: with n the number of matched phrases of PHISHING_PATTERNS, the
\* phishing-keyword penalty is 0 when n < 3, min(8 * n, 20) when n >= 3, and
\* it grows with n below the cap: the smallest count that triggers it, 3, is
\* charged less than the cap of 20.
C22_PhishingPenaltyScales ==
    (engLast # <<>> /\ OnlyPhishingPhrases(engText)) =>
        ScaledPenalty(engLast[1].res.riskScore, PhishingIndicators(toLowerCase(engText)))

\* the host ends with an entry of SUSPICIOUS_TLDS
SuspiciousHost(host) ==
    \E i \in 1..Len(SUSPICIOUS_TLDS) : EndsWith(host, SUSPICIOUS_TLDS[i])

\* some URL of the sequence is not trusted and has a host under a suspicious TLD
SomeSuspiciousHost(urls) ==
    \E i \in 1..Len(urls) : ~IsOfficialURL(urls[i]) /\ SuspiciousHost(Host(urls[i]))

\* C23: every non-trusted URL whose host ends with an entry of SUSPICIOUS_TLDS
\* gets the suspicious-TLD penalty and flag, whether or not a path, a port or
\* a query string follows the host.
C23_SuspiciousTldByHost ==
    (engLast # <<>> /\ SomeSuspiciousHost(extractURLs(engText))) =>
        /\ "SUSPICIOUS_TLD" \in WarningIds(engLast[1].res)
        /\ engLast[1].res.riskScore >= WEIGHTS.SUSPICIOUS_TLD

\* some candidate of the sequence contains the whole host
SomeCandidateHolds(urls, host) == \E i \in 1..Len(urls) : Includes(urls[i], host)

\* C25: for a bare domain of three or more labels, written without a scheme,
\* extractURLs returns a candidate that contains the complete host.
C25_BareHostIsExtractedWhole ==
    (engLast # <<>> /\ engText \in BareHostMessages) =>
        SomeCandidateHolds(extractURLs(engText), engText)

\* the identifiers of the flags of a result, in their order
FlagIds(res) == [i \in 1..Len(res.warnings) |-> res.warnings[i].id]

\* the two results are the same verdict
SameVerdict(a, b) ==
    /\ a.riskScore = b.riskScore
    /\ a.classification = b.classification
    /\ a.urlsFound = b.urlsFound
    /\ Len(a.warnings) = Len(b.warnings)
    /\ FlagIds(a) = FlagIds(b)

\* C30: performEnhancedAnalysis on the same text with currentLanguage 'ar' and
\* with currentLanguage 'en' returns the same riskScore, classification and
\* urlsFound, and the same number of flags, for the same checks in the same
\* order.
C30_VerdictIgnoresLanguage ==
    (engFirst # <<>> /\ engLast # <<>> /\ engFirst[1].lang # engLast[1].lang) =>
        SameVerdict(engFirst[1].res, engLast[1].res)

\* the suspended-account message was analysed in Arabic, then in English
C30_Witness ==
    /\ engFirst # <<>>
    /\ engLast # <<>>
    /\ engFirst[1].lang = "ar"
    /\ engLast[1].lang = "en"
    /\ engText = ScenarioSuspended
    /\ Len(engLast[1].res.warnings) >= 3
    /\ engLast[1].res.warnings # engFirst[1].res.warnings

\* the rank of a tier
TierRank(classification) ==
    CASE classification = "SAFE" -> 0
      [] classification = "SUSPICIOUS" -> 1
      [] classification = "FRAUD" -> 2

\* the sequence a is the beginning of the sequence b
IsPrefix(a, b) == Len(a) <= Len(b) /\ SubSeq(b, 1, Len(a)) = a

ReportsCombinedScore(data, res) ==
    /\ data.combined_risk_score # <<>>
           => res.riskScore = RoundTenths(data.combined_risk_score[1])
    /\ (data.combined_risk_score = <<>> /\ data.ml_risk_score # <<>>)
           => res.riskScore = RoundTenths(data.ml_risk_score[1])
    /\ (res.classification = "SAFE") <=> (res.riskScore <= 25)
    /\ (res.classification = "FRAUD") <=> (res.riskScore > 65)

\* C28: processAPIResponse reports riskScore = round(combined_risk_score)
\* whenever the response has the field, the value 0 included; it uses
\* ml_risk_score only when combined_risk_score is absent; the classification
\* is the tier of the reported score under the thresholds 25 and 65.
C28_CombinedScoreIsReported ==
    (blendOut # <<>> /\ blendOut[1].fn = "processAPIResponse") =>
        ReportsCombinedScore(blendOut[1].data, blendOut[1].res)

\* the step ends invocation c of analyzeMessage
Completes(c) == calls[c].pc \in {"fetch", "body"} /\ calls'[c].pc = "done"

\* trim of every text the user can type, computed once
TrimmedTexts == [x \in PageTexts |-> trim(x)]

\* the message of the history record is the beginning of the stored form
\* (sanitised first 100 characters) of a text of the textarea whose trimmed
\* value is text
StoredFormOf(item, text) ==
    \E x \in PageTexts :
        TrimmedTexts[x] = text /\ IsPrefix(item.message, HistoryMessages[x])

\* C26: every record put into the history pairs the verdict with the message
\* that was analysed to produce it: the stored message is the beginning of the
\* text the completing invocation analysed, also when the textarea was edited
\* while the request was in flight.
C26_RecordPairsMessageAndVerdict ==
    [][\A c \in 1..MaxAnalyses :
          (Completes(c) /\ analysisHistory' # analysisHistory)
              => StoredFormOf(analysisHistory'[1], calls[c].text)]_vars

\* an invocation of analyzeMessage is between its start and its finally block
InFlight == \E c \in DOMAIN calls : calls[c].pc \in {"delay", "fetch", "body"}

\* every invocation the page can start has run to its end
AllCompleted == started = Len(calls) /\ \A c \in DOMAIN calls : calls[c].pc = "done"

\* what the result card can show for the text: the local analysis, or the
\* blending with one of the classifier's answers
CardsFor(text, lang) ==
    { displayResult(performEnhancedAnalysis(text, lang), lang) }
        \cup { displayResult(combineMLWithEnhancedAnalysis(text, data, lang), lang) :
                 data \in PageMlData }

\* C27: when analyzeMessage is invoked again while an earlier invocation is
\* waiting, the loading indicator stays shown as long as an invocation is in
\* flight, and once all invocations have completed the result card shows the
\* result of the text submitted last (the text still in the textarea).
C27_LastSubmissionWins ==
    /\ InFlight => loading
    /\ AllCompleted =>
           /\ resultCard.show
           /\ resultCard.content[1] \in CardsFor(trim(textarea.value), currentLanguage)

\* the user is told that the report was sent
SuccessShown ==
    \/ notification # <<>> /\ notification[1][2] = "reportSent"
    \/ calls[1].alerted

\* C29: the success confirmation of a report (the notification, the alert) is
\* shown only if the POST to the report endpoint completed with a successful
\* response; not when the request failed, timed out or got a non-2xx status.
C29_SuccessOnlyAfterSuccessfulPost ==
    SuccessShown => calls[1].outcome = "ok"

\* the step is a call of addToHistory
AddsRecord == \E message \in RaceTexts : RecordAnalysis(message)

\* the new history is the old one with one record put in front and, when the
\* old one was full, without its last record
NewestFirst(old, new) ==
    /\ Len(new) = Min(Len(old) + 1, MAX_HISTORY)
    /\ \A i \in 2..Len(new) : new[i] = old[i - 1]
    /\ new[1].message \in { HistoryMessages[message] : message \in RaceTexts }

\* C21: after any sequence of initializeApp, addToHistory, deleteHistoryItem
\* and clearHistory the history holds at most MAX_HISTORY (20) records, and
\* addToHistory puts the new record at index 0, keeps the order of the others
\* and drops only the oldest record when the limit is exceeded.
C21_HistoryBoundedNewestFirst ==
    /\ [](Len(analysisHistory) <= MAX_HISTORY)
    /\ [][AddsRecord => NewestFirst(analysisHistory, analysisHistory')]_vars

\* a record was added to a full history: the oldest of the 20 loaded records
\* is gone, the other 19 follow the new one
C21_Witness ==
    /\ Len(analysisHistory) = MAX_HISTORY
    /\ analysisHistory[1].riskScore > MAX_HISTORY + 1
    /\ analysisHistory[2] = OldRecord(1)
    /\ analysisHistory[MAX_HISTORY] = OldRecord(MAX_HISTORY - 1)
=============================================================================
